---- MODULE Spec2Model ----
(***************************************************************************)
(* A model of mrv2's OpenGL viewport (mrvGLViewport.cpp): the lifetime of  *)
(* its GPU objects, the two-slot pixel-buffer readback ring, the per-frame *)
(* draw sequence, the annotation ghosting/compositing loop, the pixel      *)
(* decoder _getPixelValue and the statistics of _calculateColorArea.       *)
(*                                                                         *)
(* Every handler (draw, _readPixel, handle(FL_HIDE), setContext) is one    *)
(* action.  A handler is written as a function from the viewport state to  *)
(* the viewport state; the GL calls it issues are appended to `trace`,     *)
(* which therefore holds the calls of the most recent handler.             *)
(***************************************************************************)
EXTENDS Integers, Sequences, FiniteSets, TLC

VARIABLES
    gl,          \* Viewport::GLPrivate
    valid,       \* Fl_Gl_Window::valid()
    fontSystem,  \* p.fontSystem is non-null
    pbo,         \* the GL buffer objects named by gl.pboIds[0..1]
    trace,       \* calls issued by the most recent handler
    crashed,     \* the process died (undefined behaviour, uncaught exception)
    hidden,      \* an FL_HIDE event has been handled
    cycles,      \* the readback cycles of the most recent handler, after
                 \* the last one before it (since the last _initializeGL)
    stats,       \* the statistics computed by the most recent handler
    reads,       \* the elements of gl.image the most recent handler read: the
                 \* index of the first of the four floats of each pixel
    rgba,        \* what the most recent handler did to the probe's sample
    ann,         \* annotation state: player frame, ghost window, records
    USE_OPENGL2, \* the build defines USE_OPENGL2
    count,       \* where switched on: the number of the last drawn frame and
                 \* the number of readback cycles, since the last _initializeGL
    applied,     \* a function applied on its own: its arguments and result
    timeline,    \* a TimelineWidget and its player (mrvTimelineWidget.cpp)
    panel        \* a PanelGroup, its dock and its window (mrvPanelGroup.cpp)

vars == <<gl, valid, fontSystem, pbo, trace, crashed, hidden, cycles, stats, reads, rgba,
          ann, USE_OPENGL2, count, applied, timeline, panel>>

(***************************************************************************)
(* Bounds of the model.                                                    *)
(***************************************************************************)
MaxDim == 2          \* render sizes are 1..MaxDim pixels wide and high
MaxDuration == 1     \* in/out range durations are 0..MaxDuration frames
MaxFrame == 6        \* player and annotation frames are 0..MaxFrame
MaxGhost == 5        \* ghost windows are 0..MaxGhost frames
MaxShapes == 2       \* an annotation has 0..MaxShapes shapes
MaxBox == 3          \* the corners of an analysed region lie in 0..MaxBox
MaxSize == 3         \* images are of 1..MaxSize by 1..MaxSize pixels
MaxTime == 2         \* the timeline's current time is 0..MaxTime
MaxTimeouts == 2     \* at most MaxTimeouts FLTK timeouts are pending
MaxWindows == 4      \* at most MaxWindows floating windows are ever created
MaxPos == 1          \* window positions are (0..MaxPos, 0..MaxPos)
MaxCount == 3        \* frames and readback cycles are counted up to MaxCount

(***************************************************************************)
(* Values.                                                                 *)
(***************************************************************************)
\* imaging::Size: <<w, h>>; isValid() iff both are positive.
NoSize == <<0, 0>>
Sizes == {<<MaxDim, 1>>, <<MaxDim, MaxDim>>}
isValid(size) == size[1] > 0 /\ size[2] > 0

\* std::shared_ptr<gl::OffscreenBuffer>: the size and the colour filters
\* the buffer was created with; NoBuffer is the null pointer.
NoBuffer == [size |-> NoSize, filters |-> 0]
Buffer(size, filters) == [size |-> size, filters |-> filters]

\* A GL buffer object: how its name was obtained, the floats of storage
\* glBufferData gave it, and whether an asynchronous copy was issued into it
\* since that storage was allocated.
Slot(name, size, copied) == [name |-> name, size |-> size, copied |-> copied]

\* No slot (a null gl.image, an absent cycle).
NoSlot == -1


\* math::BBox2i as <<min.x, min.y, max.x, max.y>>.
Box(x0, y0, x1, y1) == <<x0, y0, x1, y1>>
NoStats == [computed |-> FALSE, visited |-> 0, num |-> 0]


(***************************************************************************)
(* Helpers of the handlers.  A handler state `s` is the record of the      *)
(* variables plus two flags of the running handler: `exc`, a C++ exception *)
(* in flight inside a try block, and `halted`, the handler has stopped.    *)
(***************************************************************************)
\* A call that is recorded in the trace.
Call(s, e) == [s EXCEPT !.trace = Append(@, e)]

\* s->member with s a shared_ptr: defined when the pointer is non-null.  On
\* a null pointer the behaviour is undefined: the build either dies there
\* (ubCrash) or the call does nothing and the handler goes on.
Deref(s, nonNull, e, ubCrash) ==
    IF nonNull THEN s
    ELSE IF ubCrash
         THEN [s EXCEPT !.trace = Append(@, e), !.halted = TRUE, !.crashed = TRUE]
         ELSE [s EXCEPT !.trace = Append(@, e)]

\* A call of the backend throws a std::exception inside a try block; `e`
\* names the call.
Throw(s, e) == [s EXCEPT !.exc = TRUE, !.trace = Append(@, e)]

\* A try block without its catch clause.
catchNothing(s) == s

\* catch (const std::exception& e): log through the context when it is alive.
Catch(s) ==
    IF s.exc
    THEN [s EXCEPT !.exc = FALSE,
                   !.trace = IF s.gl.context THEN Append(@, "log") ELSE @]
    ELSE s

\* An exception that leaves the handler reaches the event loop, which has
\* no handler for it: std::terminate.
Unwind(s) ==
    IF s.exc
    THEN [s EXCEPT !.halted = TRUE, !.crashed = TRUE,
                   !.trace = Append(@, "uncaught")]
    ELSE s

SizeofGLfloat == 4
\* unsigned dataSize = renderSize.w * renderSize.h * 4 * sizeof(GLfloat), in
\* bytes; the sizes of the model stay far below the 2^32 of an unsigned.
DataSize(size) == size[1] * size[2] * 4 * SizeofGLfloat

\* glBindBuffer + glBufferData(GL_PIXEL_PACK_BUFFER, dataSize, 0, ...): new
\* storage for a generated name; with name 0 nothing is bound and the call
\* is a GL error.
glBufferData(slot, dataSize) ==
    IF slot.name = "gen" THEN Slot("gen", dataSize, FALSE) ELSE slot

\* gl::doCreate: no buffer yet, or one of another size or other options.
doCreate(buffer, size, filters) ==
    buffer = NoBuffer \/ buffer.size # size \/ buffer.filters # filters

\* _initializeGL with the ring started at index 1 and nextIndex 0.
initializeGLFromSlotOne(s, fault) ==
    LET a == [s EXCEPT !.gl.index = 1, !.gl.nextIndex = 0,
                       !.pbo = [i \in 0..1 |-> Slot("gen", 0, FALSE)],
                       !.cycles = <<>>,
                       !.trace = Append(@, "glGenBuffers")]
        \* if ( !gl.render ) if (auto context = gl.context.lock())
        b == IF ~a.gl.render /\ a.gl.context
             THEN IF fault = "render"
                  THEN Throw(a, "Render::create throws")
                  ELSE [a EXCEPT !.gl.render = TRUE,
                                 !.trace = Append(@, "Render::create")]
             ELSE a
        \* if ( !p.fontSystem ) if (auto context = gl.context.lock())
        c == IF ~b.exc /\ ~b.fontSystem /\ b.gl.context
             THEN [b EXCEPT !.fontSystem = TRUE]
             ELSE b
        \* if ( !gl.shader )
        d == IF ~c.exc /\ ~c.gl.shader
             THEN IF fault = "shader"
                  THEN Throw(c, "Shader::create throws")
                  ELSE [c EXCEPT !.gl.shader = TRUE,
                                 !.trace = Append(@, "Shader::create")]
             ELSE c
    IN  Unwind(Catch(d))

(***************************************************************************)
(* Viewport::_initializeGL                                                 *)
(***************************************************************************)
_initializeGL(s, fault) ==
    LET a == [s EXCEPT !.gl.index = 0, !.gl.nextIndex = 1,
                       !.pbo = [i \in 0..1 |-> Slot("gen", 0, FALSE)],
                       !.cycles = <<>>,
                       !.trace = Append(@, "glGenBuffers")]
        \* if ( !gl.render ) if (auto context = gl.context.lock())
        b == IF ~a.gl.render /\ a.gl.context
             THEN IF fault = "render"
                  THEN Throw(a, "Render::create throws")
                  ELSE [a EXCEPT !.gl.render = TRUE,
                                 !.trace = Append(@, "Render::create")]
             ELSE a
        \* if ( !p.fontSystem ) if (auto context = gl.context.lock())
        c == IF ~b.exc /\ ~b.fontSystem /\ b.gl.context
             THEN [b EXCEPT !.fontSystem = TRUE]
             ELSE b
        \* if ( !gl.shader )
        d == IF ~c.exc /\ ~c.gl.shader
             THEN IF fault = "shader"
                  THEN Throw(c, "Shader::create throws")
                  ELSE [c EXCEPT !.gl.shader = TRUE,
                                 !.trace = Append(@, "Shader::create")]
             ELSE c
    IN  Unwind(Catch(d))

(***************************************************************************)
(* The readback ring: Viewport::_bindReadImage and the ring path of        *)
(* Viewport::_readPixel each advance it and then copy and map.             *)
(***************************************************************************)
\* glBindBuffer(pboIds[index]); glReadPixels(..., 0); glBindBuffer(
\* pboIds[nextIndex]); gl.image = glMapBuffer(...) with the current index and
\* nextIndex.  glReadPixels into a buffer object too small for the image and
\* glMapBuffer of one without storage are GL errors: nothing is copied, and
\* the map returns NULL.  The cycle is noted in `cycles`.
readback(s) ==
    LET index == s.gl.index
        nextIndex == s.gl.nextIndex
        need == DataSize(s.gl.buffer.size)
        copyOk == s.pbo[index].name = "gen" /\ s.pbo[index].size >= need
        mapOk == s.pbo[nextIndex].name = "gen" /\ s.pbo[nextIndex].size > 0
        \* copy: the slot glReadPixels targets, and whether its storage is
        \* exactly the bytes of the image; map: the slot mapped (NoSlot when
        \* glMapBuffer returns NULL), whether its storage is exactly those
        \* bytes and whether a copy was issued into it since it was allocated
        cycle == [copy |-> index,
                  copyExact |-> s.pbo[index].size = need,
                  map |-> IF mapOk THEN nextIndex ELSE NoSlot,
                  mapExact |-> s.pbo[nextIndex].size = need,
                  mapCopied |-> s.pbo[nextIndex].copied]
    IN  [s EXCEPT !.pbo[index].copied = @ \/ copyOk,
                  !.gl.image = IF mapOk THEN nextIndex ELSE NoSlot,
                  !.cycles = Append(@, cycle),
                  !.trace = @ \o <<IF index = 0 THEN "copy0" ELSE "copy1",
                                   IF ~mapOk THEN "mapNULL"
                                   ELSE IF nextIndex = 0 THEN "map0"
                                   ELSE "map1">>]

\* _bindReadImage without the two statements that advance the ring.
bindReadImageNotAdvanced(s) == readback(s)

\* _bindReadImage with nextIndex set to the new index.
bindReadImageSameIndex(s) ==
    LET index == (s.gl.index + 1) % 2
    IN  readback([s EXCEPT !.gl.index = index, !.gl.nextIndex = index])

\* Viewport::_bindReadImage
_bindReadImage(s) ==
    LET index == (s.gl.index + 1) % 2
        nextIndex == (index + 1) % 2
    IN  readback([s EXCEPT !.gl.index = index, !.gl.nextIndex = nextIndex])

\* The unmap that leaves the pointer in gl.image.
unmapImageKeepsPointer(s) ==
    IF s.gl.image # NoSlot THEN Call(s, "unmap") ELSE s

\* if ( gl.image ) { glUnmapBuffer(GL_PIXEL_PACK_BUFFER); gl.image = nullptr; }
unmapImage(s) ==
    IF s.gl.image # NoSlot
    THEN [s EXCEPT !.gl.image = NoSlot, !.trace = Append(@, "unmap")]
    ELSE s


(***************************************************************************)
(* Viewport::_calculateColorArea: the scan visits the pixels (X,Y) with    *)
(* box.x() <= X < box.max.x and box.y() <= Y < box.max.y and the sums are  *)
(* then divided by num = box.w() * box.h().                                *)
(***************************************************************************)
\* tlRender's math::BBox2i::w() and h(): max - min + 1.
BBoxW(box) == box[3] - box[1] + 1
BBoxH(box) == box[4] - box[2] + 1

Span(lo, hi) == IF hi > lo THEN hi - lo ELSE 0

_calculateColorArea(s, box) ==
    IF s.gl.image = NoSlot THEN s
    ELSE [s EXCEPT !.stats = [computed |-> TRUE,
                              visited |-> Span(box[1], box[3]) * Span(box[2], box[4]),
                              num |-> BBoxW(box) * BBoxH(box)],
                   \* gl.image[ ( X + Y * renderSize.w ) * 4 + c ]
                   !.reads = @ \cup {(X + Y * s.gl.buffer.size[1]) * 4 :
                                        X \in box[1]..box[3] - 1,
                                        Y \in box[2]..box[4] - 1},
                   !.trace = Append(@, "calculateColorArea")]

(***************************************************************************)
(* The statistics of Viewport::_calculateColorArea for one channel of      *)
(* info.rgba and the same channel of info.hsv in the RGB colour space.     *)
(* Floats are counted in quarters: Unit is 1.0F.  FloatMin stands for      *)
(* std::numeric_limits<float>::min(), the smallest positive normal float,  *)
(* which is above 0 and below every positive sample; FloatMax stands for   *)
(* std::numeric_limits<float>::max().  A mean is the pair <<sum, num>>.    *)
(***************************************************************************)
Unit == 4
FloatMin == 1
FloatMax == 1000

\* The image mapped at gl.image: sample a in the columns left of `split`,
\* sample b in the others.
Image(a, b, split) == [a |-> a, b |-> b, split |-> split]
pixelAt(image, X, Y) == IF X < image.split THEN image.a ELSE image.b

\* if ( rgba.r < 0 ) rgba.r = 0.F; if ( rgba.r > 1 ) rgba.r = 1.F;
clamp01(v) == IF v < 0 THEN 0 ELSE IF v > Unit THEN Unit ELSE v

\* max, min and mean of a colour space as lines 1094-1119 initialise them.
NoInfo == [max |-> FloatMin, min |-> FloatMax, mean |-> 0]

\* mean += v; if ( v < min ) min = v; if ( v > max ) max = v;
accumulate(acc, v) ==
    [mean |-> acc.mean + v,
     min |-> IF v < acc.min THEN v ELSE acc.min,
     max |-> IF v > acc.max THEN v ELSE acc.max]

\* The body of the inner loop (lines 1130-1214) for pixel (X, Y); given
\* notes, with the raw value, the value handed to the colour-space switch.
scanPixel(info, image, X, Y) ==
    LET sample == pixelAt(image, X, Y)
        clamped == clamp01(sample)
    IN  [rgba |-> accumulate(info.rgba, sample),
         hsv |-> accumulate(info.hsv, clamped),
         given |-> info.given \cup {<<sample, clamped>>},
         visited |-> info.visited + 1]

\* for ( int X = info.box.x(); X < maxX; ++X )
RECURSIVE scanColumns(_, _, _, _, _)
scanColumns(info, image, X, Y, maxX) ==
    IF X >= maxX THEN info
    ELSE scanColumns(scanPixel(info, image, X, Y), image, X + 1, Y, maxX)

\* for ( int Y = info.box.y(); Y < maxY; ++Y )
RECURSIVE scanRows(_, _, _, _)
scanRows(info, image, box, Y) ==
    IF Y >= box[4] THEN info
    ELSE scanRows(scanColumns(info, image, box[1], Y, box[3]), image, box, Y + 1)

\* mean /= num; diff = max - min;
areaResult(acc, num) ==
    [max |-> acc.max, min |-> acc.min, mean |-> <<acc.mean, num>>,
     diff |-> acc.max - acc.min]

\* The statistics _calculateColorArea leaves in info for a mapped image;
\* visited counts the executions of the loop body.
areaInfo(image, box) ==
    LET scanned == scanRows([rgba |-> NoInfo, hsv |-> NoInfo, given |-> {},
                             visited |-> 0], image, box, box[2])
        num == BBoxW(box) * BBoxH(box)
    IN  [rgba |-> areaResult(scanned.rgba, num),
         hsv |-> areaResult(scanned.hsv, num),
         given |-> scanned.given,
         visited |-> scanned.visited, num |-> num]

(***************************************************************************)
(* Viewport::_getPixelValue.  An image is its pixel type, its size and the *)
(* bytes of its buffer; a 32-bit quantity is the pair <<hi, lo>> of its    *)
(* upper and lower 16 bits.  A channel of a sample is the record of what   *)
(* was read for it: `raw`, the integer read, `over`, the divisor applied   *)
(* to it (NoDivisor when the value is passed through), and `at` and        *)
(* `width`, the offset and number of the bytes read (width 0: not read     *)
(* from the image).                                                        *)
(***************************************************************************)
LTypes == {"L_U8", "L_U16", "L_U32", "L_F16", "L_F32"}
LATypes == {"LA_U8", "LA_U16", "LA_U32", "LA_F16", "LA_F32"}
RGBTypes == {"RGB_U8", "RGB_U10", "RGB_U16", "RGB_U32", "RGB_F16", "RGB_F32"}
RGBATypes == {"RGBA_U8", "RGBA_U16", "RGBA_U32", "RGBA_F16", "RGBA_F32"}
YUV8Types == {"YUV_420P_U8", "YUV_422P_U8", "YUV_444P_U8"}
YUV16Types == {"YUV_420P_U16", "YUV_422P_U16", "YUV_444P_U16"}
YUVTypes == YUV8Types \cup YUV16Types
\* imaging::PixelType
PixelTypes == {"None"} \cup LTypes \cup LATypes \cup RGBTypes \cup RGBATypes
                  \cup YUVTypes

U8Types == {"L_U8", "LA_U8", "RGB_U8", "RGBA_U8"}
U16Types == {"L_U16", "LA_U16", "RGB_U16", "RGBA_U16"}
U32Types == {"L_U32", "LA_U32", "RGB_U32", "RGBA_U32"}
F16Types == {"L_F16", "LA_F16", "RGB_F16", "RGBA_F16"}
F32Types == {"L_F32", "LA_F32", "RGB_F32", "RGBA_F32"}

\* imaging::getChannelCount
getChannelCount(type) ==
    CASE type \in LTypes -> 1
      [] type \in LATypes -> 2
      [] type \in RGBTypes -> 3
      [] type \in RGBATypes -> 4
      [] type \in YUVTypes -> 3
      [] OTHER -> 0

\* imaging::getBitDepth
getBitDepth(type) ==
    CASE type \in U8Types \cup YUV8Types -> 8
      [] type = "RGB_U10" -> 10
      [] type \in U16Types \cup F16Types \cup YUV16Types -> 16
      [] type \in U32Types \cup F32Types -> 32
      [] OTHER -> 0

\* imaging::getDataByteCount: the bytes of the buffer behind getData().
getDataByteCount(type, w, h) ==
    CASE type = "RGB_U10" -> w * h * 4
      [] type = "YUV_420P_U8" -> w * h + 2 * (((w \div 2) * h) \div 2)
      [] type = "YUV_422P_U8" -> w * h + 2 * ((w \div 2) * h)
      [] type = "YUV_444P_U8" -> w * h * 3
      [] type = "YUV_420P_U16" -> (w * h + 2 * (((w \div 2) * h) \div 2)) * 2
      [] type = "YUV_422P_U16" -> (w * h + 2 * ((w \div 2) * h)) * 2
      [] type = "YUV_444P_U16" -> w * h * 3 * 2
      [] OTHER -> w * h * getChannelCount(type) * (getBitDepth(type) \div 8)

\* The divisors: 255.0f, 65535.0f and float(numeric_limits<uint32_t>::max()).
NoDivisor == <<0, 0>>
U8Max == <<0, 255>>
U16Max == <<0, 65535>>
UINT32_MAX == <<65535, 65535>>

\* A float that is not read from the image, such as 1.0f.
Float(n) == [raw |-> <<0, n>>, over |-> <<0, 1>>, at |-> 0 - 1, width |-> 0]
\* imaging::Color4f
Color4f(r, g, b, a) == [r |-> Float(r), g |-> Float(g), b |-> Float(b), a |-> Float(a)]

\* data[i]: the byte of the pattern the buffer is filled with; a read
\* outside the buffer yields whatever lies there.
byteAt(image, i, beyond) ==
    IF i < 0 \/ i >= getDataByteCount(image.type, image.size[1], image.size[2])
    THEN beyond
    ELSE CASE image.data = "ones" -> 255
           [] image.data = "half" -> IF i % 2 = 0 THEN 0 ELSE 128
           [] OTHER -> i % 256

\* The little-endian integer of `width` bytes at data[at].
readLE(image, at, width, beyond) ==
    <<IF width = 4
      THEN byteAt(image, at + 2, beyond) + 256 * byteAt(image, at + 3, beyond)
      ELSE 0,
      byteAt(image, at, beyond)
        + (IF width >= 2 THEN 256 * byteAt(image, at + 1, beyond) ELSE 0)>>

\* A channel read from `width` bytes at data[at] and divided by `over`.
Channel(image, at, width, over, beyond) ==
    [raw |-> readLE(image, at, width, beyond), over |-> over, at |-> at,
     width |-> width]

\* A field of the imaging::U10 at data[at] (pad:2, b:10, g:10, r:10 from the
\* low bits), divided by `over`.
ChannelU10(image, at, field, over, beyond) ==
    LET word == readLE(image, at, 4, beyond)
    IN  [raw |-> <<0, CASE field = "b" -> (word[2] \div 4) % 1024
                       [] field = "g" -> (word[2] \div 4096) + (word[1] % 64) * 16
                       [] OTHER -> word[1] \div 64>>,
         over |-> over, at |-> at, width |-> 4]

\* The interleaved types with a case in the second switch that reads f[k]:
\* there is none for L_F32 and LA_F32.
InterleavedCases ==
    (LTypes \cup LATypes \cup RGBTypes \cup RGBATypes) \ {"RGB_U10", "L_F32", "LA_F32"}

\* sizeof the element type f points to in the case of an interleaved type
elementSize(type) ==
    CASE type \in U8Types -> 1
      [] type \in U16Types \cup F16Types -> 2
      [] OTHER -> 4

\* the divisor in the case of an interleaved type
elementMax(type) ==
    CASE type \in U8Types -> U8Max
      [] type \in U16Types -> U16Max
      [] type \in U32Types -> UINT32_MAX
      [] OTHER -> NoDivisor

\* Lines 790-793: the lookup coordinates.
lookupX(image, pos, mirror) == IF mirror[1] THEN image.size[1] - pos[1] - 1 ELSE pos[1]
\* The row without the flip of line 791: pos.y, reflected by mirror.y.
lookupYUnflipped(image, pos, mirror) ==
    IF mirror[2] THEN image.size[2] - pos[2] - 1 ELSE pos[2]

lookupY(image, pos, mirror) ==
    LET Y == image.size[2] - pos[2] - 1
    IN  IF mirror[2] THEN image.size[2] - Y - 1 ELSE Y

\* Viewport::_getPixelValue( rgba, image, pos ) for rgba = entry: `sample` is
\* rgba as the switch leaves it, `steps` the conversions then applied to it.
_getPixelValue(entry, image, pos, mirror, beyond) ==
    LET type == image.type
        channels == getChannelCount(type)
        depth == getBitDepth(type) \div 8
        w == image.size[1]
        h == image.size[2]
        X == lookupX(image, pos, mirror)
        Y == lookupY(image, pos, mirror)
        offset0 == (Y * w + X) * depth
        offset == IF type \in YUVTypes THEN offset0 ELSE offset0 * channels
        f(k) == Channel(image, offset + k * elementSize(type), elementSize(type),
                        elementMax(type), beyond)
        yuv(over, iy, iu, iv) ==
            [r |-> Channel(image, iy, 1, over, beyond),
             g |-> Channel(image, iu, 1, over, beyond),
             b |-> Channel(image, iv, 1, over, beyond),
             a |-> Float(1)]
        w2 == (w + 1) \div 2
        h2 == (h + 1) \div 2
        converted(sample) ==
            [sample |-> sample, steps |-> <<"checkLevels", "to_rgb">>]
        plain(sample) == [sample |-> sample, steps |-> <<>>]
    IN  IF X < 0 \/ Y < 0 \/ X >= w \/ Y >= h
        THEN plain(entry)
        ELSE CASE type \in InterleavedCases \cap (LTypes \cup LATypes) ->
                    plain([r |-> f(0), g |-> f(0), b |-> f(0),
                           a |-> IF type \in LATypes THEN f(1) ELSE Float(1)])
               [] type \in InterleavedCases \cap (RGBTypes \cup RGBATypes) ->
                    plain([r |-> f(0), g |-> f(1), b |-> f(2),
                           a |-> IF type \in RGBATypes THEN f(3) ELSE Float(1)])
               [] type = "RGB_U10" ->
                    plain([r |-> ChannelU10(image, offset, "r", UINT32_MAX, beyond),
                           g |-> ChannelU10(image, offset, "g", UINT32_MAX, beyond),
                           b |-> ChannelU10(image, offset, "b", UINT32_MAX, beyond),
                           a |-> Float(1)])
               [] type = "YUV_420P_U8" ->
                    LET Ysize == w * h
                        Usize == w2 * h2
                        offset2 == (Y \div 2) * w2 + X \div 2
                    IN  converted(yuv(U8Max, offset, Ysize + offset2,
                                      Ysize + Usize + offset2))
               [] type = "YUV_422P_U8" ->
                    LET Ysize == w * h
                        Usize == w2 * h
                        offset2 == Y * w2 + X \div 2
                    IN  converted(yuv(U8Max, offset, Ysize + offset2,
                                      Ysize + Usize + offset2))
               [] type = "YUV_444P_U8" ->
                    LET Ysize == w * h
                    IN  converted(yuv(U8Max, offset, Ysize + offset,
                                      Ysize * 2 + offset))
               [] type = "YUV_420P_U16" ->
                    LET at == (Y * w) \div 4 + X \div 2
                        Ysize == w * h
                        Usize == Ysize \div 4
                    IN  converted(yuv(U16Max, offset, Ysize + at,
                                      Ysize + Usize + at))
               [] type = "YUV_422P_U16" ->
                    LET Ysize == w * h * depth
                        at == Y * w + X
                        Usize == (w \div 2) * h * depth
                    IN  converted(yuv(U16Max, offset, Ysize + at,
                                      Ysize + Usize + at))
               [] type = "YUV_444P_U16" ->
                    LET Ysize == w * h * depth
                    IN  converted(yuv(U16Max, offset, Ysize + offset,
                                      Ysize * 2 + offset))
               [] OTHER -> plain([entry EXCEPT !.a = Float(1)])

(***************************************************************************)
(* Viewport::_readPixel.  `probe` holds what the probe reads from the UI   *)
(* and the player: the pixel-value mode, whether there is a timeline       *)
(* player, its playback state and the frames of its in/out range.          *)
(***************************************************************************)
\* bool update (lines 1310-1317)
probeUpdate(probe) ==
    IF probe.players
    THEN IF probe.duration # 0 THEN TRUE ELSE probe.playback = "Stop"
    ELSE FALSE

_readPixel(s, probe) ==
    IF ~s.valid THEN s
    ELSE IF ~probe.full
    THEN \* the decoder path (_getPixelValue over the layers)
         LET a == [s EXCEPT !.rgba = "decoded", !.trace = Append(@, "getPixelValue")]
         IN  Call(unmapImage(a), "bindPBO0")
    ELSE IF s.gl.buffer = NoBuffer THEN s
    ELSE IF probeUpdate(probe)
    THEN [s EXCEPT !.rgba = "sync", !.trace = Append(@, "glReadPixelsSync")]
    ELSE LET index == (s.gl.index + 1) % 2
             nextIndex == (index + 1) % 2
             a == IF s.gl.image = NoSlot
                  THEN readback([s EXCEPT !.gl.index = index,
                                          !.gl.nextIndex = nextIndex])
                  ELSE s
             \* gl.image[ ( pos.x + pos.y * renderSize.w ) * 4 + c ]
             b == IF a.gl.image # NoSlot
                  THEN [a EXCEPT !.rgba = "ring",
                                 !.reads = @ \cup {(probe.pos[1] + probe.pos[2]
                                                      * a.gl.buffer.size[1]) * 4},
                                 !.trace = Append(@, "readImage")]
                  ELSE a
         IN  Call(unmapImage(b), "bindPBO0")

\* TimelineViewport::updatePixelBar, called by draw(): it may probe the pixel
\* under the mouse with _readPixel.
updatePixelBar(s, in) ==
    IF in.probing THEN _readPixel(s, in.probe) ELSE s


(***************************************************************************)
(* Annotations.  A float is kept as an exact fraction <<num, den>>.  The   *)
(* annotation state `ann` holds the player's current frame, the ghost      *)
(* window, the annotation records (frame, allFrames, shapes; a shape has a *)
(* kind, a stored alpha and a matrix), the draw calls of the last frame    *)
(* and the value of draw()'s mvp matrix after _drawAnnotations.            *)
(***************************************************************************)
Zero == <<0, 1>>
One == <<1, 1>>
Mul(x, y) == <<x[1] * y[1], x[2] * y[2]>>
Eq(x, y) == x[1] * y[2] = y[1] * x[2]

\* for ( short i = p.ghostPrevious-1; i > 0; --i )
\*     if ( frame - i == annotationFrame ) { alphamult = 1.F - (float)i/p.ghostPrevious; break; }
RECURSIVE scanPrevious(_, _, _, _, _)
scanPrevious(frame, annotationFrame, ghostPrevious, i, alphamult) ==
    IF i > 0
    THEN IF frame - i = annotationFrame
         THEN <<ghostPrevious - i, ghostPrevious>>
         ELSE scanPrevious(frame, annotationFrame, ghostPrevious, i - 1, alphamult)
    ELSE alphamult

\* The scan of the ghostNext window with the test of the ghostPrevious one.
RECURSIVE scanNextBackwards(_, _, _, _, _)
scanNextBackwards(frame, annotationFrame, ghostNext, i, alphamult) ==
    IF i < ghostNext
    THEN IF frame - i = annotationFrame
         THEN <<ghostNext - i, ghostNext>>
         ELSE scanNextBackwards(frame, annotationFrame, ghostNext, i + 1, alphamult)
    ELSE alphamult

\* for ( short i = 1; i < p.ghostNext; ++i )
\*     if ( frame + i == annotationFrame ) { alphamult = 1.F - (float)i/p.ghostNext; break; }
RECURSIVE scanNext(_, _, _, _, _)
scanNext(frame, annotationFrame, ghostNext, i, alphamult) ==
    IF i < ghostNext
    THEN IF frame + i = annotationFrame
         THEN <<ghostNext - i, ghostNext>>
         ELSE scanNext(frame, annotationFrame, ghostNext, i + 1, alphamult)
    ELSE alphamult

\* alphamult without the scan of the ghostNext window.
alphamultNoNext(frame, annotation, ghostPrevious, ghostNext) ==
    IF frame = annotation.frame \/ annotation.allFrames THEN One
    ELSE IF ghostPrevious # 0
         THEN scanPrevious(frame, annotation.frame, ghostPrevious,
                           ghostPrevious - 1, Zero)
         ELSE Zero

\* float alphamult of one annotation (lines 642-669, and 547-574)
alphamult(frame, annotation, ghostPrevious, ghostNext) ==
    IF frame = annotation.frame \/ annotation.allFrames THEN One
    ELSE LET a == IF ghostPrevious # 0
                  THEN scanPrevious(frame, annotation.frame, ghostPrevious,
                                    ghostPrevious - 1, Zero)
                  ELSE Zero
         IN  IF ghostNext # 0
             THEN scanNext(frame, annotation.frame, ghostNext, 1, a)
             ELSE a

TextKinds == {"text", "emptyText"}

\* The shape loop body without its last statement, shape->color.a = a.
drawShapeNoRestore(a, i, j, mult, opengl2) ==
    LET shape == a.annotations[i].shapes[j]
    IN  IF opengl2 /\ shape.kind \in TextKinds THEN a
        ELSE LET mvp == IF ~opengl2 /\ shape.kind = "text" THEN "textMvp" ELSE a.mvp
                 b == [a EXCEPT !.mvp = mvp,
                                !.annotations[i].shapes[j].alpha = Mul(@, mult),
                                !.annotations[i].shapes[j].matrix = mvp]
             IN  [b EXCEPT !.drawCalls =
                     Append(@, [pass |-> "GL", ann |-> i, shape |-> j,
                                alpha |-> b.annotations[i].shapes[j].alpha,
                                matrix |-> b.annotations[i].shapes[j].matrix])]

\* The body of the shape loop of _drawAnnotations (lines 680-712) for shape
\* j of annotation i.  With USE_OPENGL2 a text shape is left to the GL2 pass;
\* without it a text shape with text replaces the caller's mvp.
drawShape(a, i, j, mult, opengl2) ==
    LET shape == a.annotations[i].shapes[j]
    IN  IF opengl2 /\ shape.kind \in TextKinds THEN a
        ELSE LET mvp == IF ~opengl2 /\ shape.kind = "text" THEN "textMvp" ELSE a.mvp
                 alpha == shape.alpha
                 \* shape->color.a *= alphamult; shape->matrix = mvp;
                 b == [a EXCEPT !.mvp = mvp,
                                !.annotations[i].shapes[j].alpha = Mul(@, mult),
                                !.annotations[i].shapes[j].matrix = mvp]
                 \* shape->draw( gl.render );
                 c == [b EXCEPT !.drawCalls =
                          Append(@, [pass |-> "GL", ann |-> i, shape |-> j,
                                     alpha |-> b.annotations[i].shapes[j].alpha,
                                     matrix |-> b.annotations[i].shapes[j].matrix])]
                 \* shape->color.a = a;
             IN  [c EXCEPT !.annotations[i].shapes[j].alpha = alpha]

\* The shape loop over shapes.begin() .. shapes.end().
RECURSIVE drawShapesForward(_, _, _, _, _)
drawShapesForward(a, i, j, mult, opengl2) ==
    IF j < 1 THEN a
    ELSE drawShape(drawShapesForward(a, i, j - 1, mult, opengl2), i, j, mult, opengl2)

\* for ( ; i != e; ++i ) over shapes.rbegin() .. shapes.rend()
RECURSIVE drawShapesReverse(_, _, _, _, _)
drawShapesReverse(a, i, j, mult, opengl2) ==
    IF j < 1 THEN a
    ELSE drawShapesReverse(drawShape(a, i, j, mult, opengl2), i, j - 1, mult, opengl2)

\* for ( const auto& annotation : annotations )
RECURSIVE drawAnnotationsFrom(_, _, _)
drawAnnotationsFrom(a, i, opengl2) ==
    IF i > Len(a.annotations) THEN a
    ELSE LET mult == alphamult(a.frame, a.annotations[i], a.ghostPrevious, a.ghostNext)
             b == IF mult[1] = 0 THEN a
                  ELSE drawShapesReverse(a, i, Len(a.annotations[i].shapes),
                                         mult, opengl2)
         IN  drawAnnotationsFrom(b, i + 1, opengl2)

\* Viewport::_drawAnnotations(mvp)
_drawAnnotations(a, opengl2) ==
    IF ~a.player THEN a ELSE drawAnnotationsFrom(a, 1, opengl2)

\* The body of the shape loop of _drawAnnotationsGL2 without its last
\* statement, shape->color.a = a.
drawShapeGL2NoRestore(a, i, j, mult) ==
    LET shape == a.annotations[i].shapes[j]
    IN  IF shape.kind \notin TextKinds THEN a
        ELSE LET b == [a EXCEPT !.annotations[i].shapes[j].alpha = Mul(@, mult),
                                !.annotations[i].shapes[j].view = "viewport",
                                !.annotations[i].shapes[j].matrix = "gl2Mvp"]
             IN  [b EXCEPT !.drawCalls =
                     Append(@, [pass |-> "GL2", ann |-> i, shape |-> j,
                                alpha |-> b.annotations[i].shapes[j].alpha,
                                matrix |-> b.annotations[i].shapes[j].matrix])]

\* The body of the shape loop of _drawAnnotationsGL2 (lines 597-612); view
\* stands for the text shape's pixels_per_unit, w, h and viewZoom.
drawShapeGL2(a, i, j, mult) ==
    LET shape == a.annotations[i].shapes[j]
    IN  IF shape.kind \notin TextKinds THEN a
        ELSE LET alpha == shape.alpha
                 b == [a EXCEPT !.annotations[i].shapes[j].alpha = Mul(@, mult),
                                !.annotations[i].shapes[j].view = "viewport",
                                !.annotations[i].shapes[j].matrix = "gl2Mvp"]
                 c == [b EXCEPT !.drawCalls =
                          Append(@, [pass |-> "GL2", ann |-> i, shape |-> j,
                                     alpha |-> b.annotations[i].shapes[j].alpha,
                                     matrix |-> b.annotations[i].shapes[j].matrix])]
             IN  [c EXCEPT !.annotations[i].shapes[j].alpha = alpha]

\* for ( auto& shape : shapes )
RECURSIVE drawShapesGL2(_, _, _, _)
drawShapesGL2(a, i, j, mult) ==
    IF j > Len(a.annotations[i].shapes) THEN a
    ELSE drawShapesGL2(drawShapeGL2(a, i, j, mult), i, j + 1, mult)

RECURSIVE drawAnnotationsGL2From(_, _)
drawAnnotationsGL2From(a, i) ==
    IF i > Len(a.annotations) THEN a
    ELSE LET mult == alphamult(a.frame, a.annotations[i], a.ghostPrevious, a.ghostNext)
             b == IF mult[1] = 0 THEN a ELSE drawShapesGL2(a, i, 1, mult)
         IN  drawAnnotationsGL2From(b, i + 1)

\* Viewport::_drawAnnotationsGL2()
_drawAnnotationsGL2(a) ==
    IF ~a.player THEN a ELSE drawAnnotationsGL2From(a, 1)


(***************************************************************************)
(* Viewport::draw                                                          *)
(***************************************************************************)
\* The body of the try block (lines 253-298): the offscreen buffer is
\* (re)created when gl::doCreate says so, together with the storage of both
\* readback slots, and the video is rendered into it.
renderFrame(s, in) ==
    IF s.halted THEN s
    ELSE LET a == IF isValid(in.renderSize)
                  THEN IF doCreate(s.gl.buffer, in.renderSize, in.filters)
                       THEN IF in.fault = "create"
                            THEN Throw(s, "OffscreenBuffer::create throws")
                            ELSE [s EXCEPT
                                    !.gl.buffer = Buffer(in.renderSize, in.filters),
                                    !.pbo = [i \in 0..1 |->
                                               glBufferData(s.pbo[i], DataSize(in.renderSize))],
                                    !.trace = @ \o <<"OffscreenBuffer::create", "glBufferData">>]
                       ELSE s
                  ELSE [s EXCEPT !.gl.buffer = NoBuffer]
         IN  IF a.exc \/ a.gl.buffer = NoBuffer THEN a
             ELSE LET b == Deref(a, a.gl.render, "nullRender", in.ubCrash)
                  IN  IF b.halted \/ ~b.gl.render THEN b
                      ELSE IF in.fault = "drawVideo"
                      THEN Throw(b, "drawVideo throws")
                      ELSE Call(b, "drawVideo")

\* min != max of the selection box
nonEmpty(box) == <<box[1], box[2]>> # <<box[3], box[4]>>

\* "Check min < max" (lines 405-417)
normalized(box) ==
    LET x == IF box[1] > box[3] THEN <<box[3], box[1]>> ELSE <<box[1], box[3]>>
        y == IF box[2] > box[4] THEN <<box[4], box[2]>> ELSE <<box[2], box[4]>>
    IN  Box(x[1], y[1], x[2], y[2])

\* Lines 402-449: the readback and analysis step.
readbackAndAnalyse(s, in) ==
    IF s.halted THEN s
    ELSE LET a == IF nonEmpty(in.selection)
                  THEN _bindReadImage(s)
                  ELSE [s EXCEPT !.gl.image = NoSlot]
             box == IF nonEmpty(in.selection) THEN normalized(in.selection)
                    ELSE in.selection
             b == IF in.colorAreaTool
                  THEN Call(_calculateColorArea(a, box), "colorAreaTool.update")
                  ELSE a
             c == updatePixelBar(b, in)
         IN  Call(unmapImage(c), "bindPBO0")

\* The overlays with the safe areas drawn before the annotations.
drawOverlaysSafeAreasFirst(s, in, opengl2) ==
    IF s.halted THEN s
    ELSE LET a == IF <<in.selection[1], in.selection[2]>> #
                     <<in.selection[3], in.selection[4]>>
                  THEN Call(s, "selectionOutline") ELSE s
             b == IF "safeAreas" \in in.overlays
                  THEN Deref(Call(a, "safeAreas"), a.fontSystem, "nullFontSystem",
                             in.ubCrash)
                  ELSE a
             c == IF ~b.halted /\ "annotations" \in in.overlays
                  THEN [b EXCEPT !.ann = _drawAnnotations(@, opengl2),
                                 !.trace = Append(@, "annotations")]
                  ELSE b
         IN  IF c.halted THEN c
             ELSE IF "cursor" \in in.overlays
             THEN [c EXCEPT !.ann.cursorMvp = c.ann.mvp,
                            !.trace = Append(@, "cursor")]
             ELSE c

\* Lines 452-467: outline, annotations, safe areas, cursor.
drawOverlays(s, in, opengl2) ==
    IF s.halted THEN s
    ELSE LET a == IF nonEmpty(in.selection)
                  THEN Call(s, "selectionOutline") ELSE s
             b == IF "annotations" \in in.overlays
                  THEN [a EXCEPT !.ann = _drawAnnotations(@, opengl2),
                                 !.trace = Append(@, "annotations")]
                  ELSE a
             c == IF "safeAreas" \in in.overlays
                  THEN Deref(Call(b, "safeAreas"), b.fontSystem, "nullFontSystem",
                             in.ubCrash)
                  ELSE b
         IN  IF c.halted THEN c
             ELSE IF "cursor" \in in.overlays
             THEN [c EXCEPT !.ann.cursorMvp = c.ann.mvp,
                            !.trace = Append(@, "cursor")]
             ELSE c

\* Lines 335-473: what draw() does when there is an offscreen buffer.
drawBuffer(s, in, opengl2) ==
    IF s.halted THEN s
    ELSE LET a == Deref(s, s.gl.shader, "nullShader", in.ubCrash)
         IN  IF a.halted THEN a
             ELSE LET b == [a EXCEPT !.gl.vbo = TRUE, !.gl.vao = TRUE,
                                     !.ann.mvp = "mvp",
                                     !.trace = Append(@, "blit")]
                      c == readbackAndAnalyse(b, in)
                      d == drawOverlays(c, in, opengl2)
                  IN  IF d.halted THEN d
                      ELSE IF "hud" \in in.overlays
                      THEN Deref(Call(d, "hud"), d.fontSystem, "nullFontSystem",
                                 in.ubCrash)
                      ELSE d

draw(s, in, opengl2) ==
    LET a == IF ~s.valid
             THEN LET i == _initializeGL(s, in.fault)
                  IN  IF i.halted THEN i ELSE [i EXCEPT !.valid = TRUE]
             ELSE s
        b == Unwind(Catch(renderFrame(a, in)))
        c == IF b.halted THEN b ELSE Call(b, "glClear")
        d == IF c.gl.buffer # NoBuffer THEN drawBuffer(c, in, opengl2) ELSE c
    IN  IF ~d.halted /\ opengl2 /\ "annotations" \in in.overlays
        THEN [d EXCEPT !.ann = _drawAnnotationsGL2(@),
                       !.trace = Append(@, "annotationsGL2")]
        ELSE d

(***************************************************************************)
(* Viewport::handle(FL_HIDE)                                               *)
(***************************************************************************)
handle(s) ==
    [s EXCEPT !.gl.render = FALSE, !.gl.buffer = NoBuffer, !.gl.shader = FALSE,
              !.gl.vbo = FALSE, !.gl.vao = FALSE,
              !.pbo = [i \in 0..1 |-> Slot("zero", 0, FALSE)],
              !.fontSystem = FALSE,
              !.valid = FALSE,
              !.hidden = TRUE,
              !.trace = Append(@, "glDeleteBuffers")]


(***************************************************************************)
(* Inputs of the handlers.                                                 *)
(***************************************************************************)
Probe(full, players, playback, duration) ==
    [full |-> full, players |-> players, playback |-> playback,
     duration |-> duration, pos |-> <<0, 0>>]

\* float -> int conversion of a quotient: truncation towards zero
Truncated(a, b) == IF a < 0 THEN 0 - ((0 - a) \div b) ELSE a \div b

\* The probe with the mouse at mousePos, the view at viewPos and the zoom
\* viewZoom: pos = ( p.mousePos - p.viewPos ) / p.viewZoom (lines 1249-1251)
ProbeAt(probe, mousePos, viewPos, viewZoom) ==
    [probe EXCEPT !.pos = <<Truncated(mousePos[1] - viewPos[1], viewZoom),
                            Truncated(mousePos[2] - viewPos[2], viewZoom)>>]

Probes == {Probe(f, p, pb, d) : f \in BOOLEAN, p \in BOOLEAN,
                                pb \in {"Stop", "Forward"}, d \in 0..MaxDuration}

Selections == {Box(0, 0, 0, 0), Box(0, 0, 1, 0), Box(1, 1, 0, 0)}

Overlays == {"annotations", "safeAreas", "cursor", "hud"}

\* What one draw() reads from its surroundings: the render size and colour
\* filters, p.selection, the fault of the backend and the outcome of
\* undefined behaviour, whether there is a colour-area panel, whether and how
\* updatePixelBar probes, and the overlays that are switched on.
DrawInput(size, filters, sel, fault, ub, tool, probing, probe, overlays) ==
    [renderSize |-> size, filters |-> filters, selection |-> sel,
     fault |-> fault, ubCrash |-> ub, colorAreaTool |-> tool,
     probing |-> probing, probe |-> probe, overlays |-> overlays]

\* The probe of a stopped clip, used where draw() does not probe.
NoProbe == Probe(FALSE, TRUE, "Stop", 1)

(***************************************************************************)
(* The state after construction (lines 67-106) and the actions.            *)
(***************************************************************************)
NoAnnotations ==
    [player |-> TRUE, frame |-> 0, ghostPrevious |-> 0, ghostNext |-> 0,
     annotations |-> <<>>, drawCalls |-> <<>>, mvp |-> "mvp",
     cursorMvp |-> "mvp"]

Constructed ==
    /\ gl = [context |-> FALSE, buffer |-> NoBuffer, render |-> FALSE,
             shader |-> FALSE, index |-> 0, nextIndex |-> 1,
             vbo |-> FALSE, vao |-> FALSE, image |-> NoSlot]
    /\ valid = FALSE
    /\ fontSystem = FALSE
    /\ pbo = [i \in 0..1 |-> Slot("uninit", 0, FALSE)]
    /\ trace = <<>>
    /\ crashed = FALSE
    /\ hidden = FALSE
    /\ cycles = <<>>
    /\ stats = NoStats
    /\ reads = {}
    /\ rgba = "untouched"

\* There is no timeline widget and no panel group.
NoTimeline == [widget |-> FALSE]
NoPanel == [group |-> FALSE]
NoWidgets ==
    /\ timeline = NoTimeline
    /\ panel = NoPanel

\* Nothing is counted, no function is applied on its own.
NoCount == [on |-> FALSE, frames |-> 0, cycles |-> 0]
NotApplied == [op |-> "none"]
Idle ==
    /\ count = NoCount
    /\ applied = NotApplied

\* The count after a handler that ends in handler state s: a frame is a
\* draw() that got to its glClear, and _initializeGL starts both counts anew.
Counted(s) ==
    LET initialized == \E i \in 1..Len(s.trace) : s.trace[i] = "glGenBuffers"
        drawn == \E i \in 1..Len(s.trace) : s.trace[i] = "glClear"
        before == IF cycles = <<>> THEN 0 ELSE 1
    IN  IF ~count.on THEN count
        ELSE [on |-> TRUE,
              frames |-> (IF initialized THEN 0 ELSE count.frames)
                         + (IF drawn THEN 1 ELSE 0),
              cycles |-> IF initialized THEN Len(s.cycles)
                         ELSE count.cycles + Len(s.cycles) - before]
WithinCount == count.on => (count.frames < MaxCount /\ count.cycles < MaxCount)

\* The handler state at the entry of a handler.
Entry ==
    [gl |-> gl, valid |-> valid, fontSystem |-> fontSystem, pbo |-> pbo,
     trace |-> <<>>, crashed |-> crashed, hidden |-> hidden,
     cycles |-> IF cycles = <<>> THEN <<>> ELSE <<cycles[Len(cycles)]>>,
     stats |-> NoStats, reads |-> {},
     rgba |-> "untouched", ann |-> [ann EXCEPT !.drawCalls = <<>>],
     exc |-> FALSE, halted |-> FALSE]

\* The viewport's variables after a handler that ends in handler state s.
Returned(s) ==
    /\ gl' = s.gl
    /\ valid' = s.valid
    /\ fontSystem' = s.fontSystem
    /\ pbo' = s.pbo
    /\ trace' = s.trace
    /\ crashed' = s.crashed
    /\ hidden' = s.hidden
    /\ cycles' = s.cycles
    /\ stats' = s.stats
    /\ reads' = s.reads
    /\ rgba' = s.rgba
    /\ ann' = s.ann
    /\ count' = Counted(s)

Return(s) ==
    /\ Returned(s)
    /\ UNCHANGED <<USE_OPENGL2, applied, timeline, panel>>

\* Viewport::setContext
setContext ==
    /\ ~crashed
    /\ Return([Entry EXCEPT !.gl.context = TRUE])

\* Fl_Gl_Window invalidates the window (valid(0)) when it is resized or
\* given a new context; the viewport's objects stay as they are.
Invalidate ==
    /\ ~crashed
    /\ valid
    /\ Return([Entry EXCEPT !.valid = FALSE])

Hide ==
    /\ ~crashed
    /\ Return(handle(Entry))

ReadPixel(probes) ==
    /\ ~crashed
    /\ WithinCount
    /\ \E probe \in probes :
          Return(_readPixel(Entry, probe))

Draw(inputs) ==
    /\ ~crashed
    /\ WithinCount
    /\ \E in \in inputs : Return(draw(Entry, in, USE_OPENGL2))


(***************************************************************************)
(* Spec: the life of the viewport's GPU objects and of the readback ring   *)
(* under draw(), the pixel probe, FL_HIDE and invalidation, with faults of *)
(* the render backend.                                                     *)
(***************************************************************************)
\* render size and colour filters of a frame
Targets == {<<NoSize, 0>>} \cup {<<size, 0>> : size \in Sizes}

\* a fault of the backend and the outcome of undefined behaviour
Outcomes == {<<"none", FALSE>>, <<"none", TRUE>>, <<"render", TRUE>>,
             <<"shader", TRUE>>, <<"create", TRUE>>, <<"drawVideo", TRUE>>}

\* whether updatePixelBar probes, and what the probe sees
DrawProbes == {<<FALSE, NoProbe>>, <<TRUE, NoProbe>>,
               <<TRUE, Probe(TRUE, TRUE, "Stop", 1)>>,
               <<TRUE, Probe(TRUE, FALSE, "Stop", 0)>>}

\* The frames of a specification: every combination of the given choices.
Inputs(targets, selections, outcomes, tools, probes, overlays) ==
    {DrawInput(t[1], t[2], sel, o[1], o[2], tool, pr[1], pr[2], ov) :
        t \in targets, sel \in selections, o \in outcomes, tool \in tools,
        pr \in probes, ov \in overlays}

ViewInputs ==
    Inputs(Targets, Selections, Outcomes, {TRUE}, DrawProbes, {{}})

OneAnnotation ==
    [NoAnnotations EXCEPT
        !.ghostPrevious = 2,
        !.annotations = <<[frame |-> 0, allFrames |-> FALSE,
                           shapes |-> <<[kind |-> "stroke", alpha |-> One,
                                         matrix |-> "stored", view |-> "stored"],
                                        [kind |-> "text", alpha |-> <<1, 2>>,
                                         matrix |-> "stored", view |-> "stored"]>>]>>]

Init ==
    /\ Constructed
    /\ Idle
    /\ ann = OneAnnotation
    /\ USE_OPENGL2 = FALSE
    /\ NoWidgets

Next ==
    \/ setContext
    \/ Draw(ViewInputs)
    \/ ReadPixel(Probes)
    \/ Hide
    \/ Invalidate

Spec == Init /\ [][Next]_vars


(***************************************************************************)
(* SpecGhost and SpecShapes: frames drawn with annotations switched on, in *)
(* a build with and in one without USE_OPENGL2, while the player moves.    *)
(* SpecGhost varies the annotation's frame and the ghost window, SpecShapes *)
(* the shapes of two annotations.                                          *)
(***************************************************************************)
\* The player moves to another frame (player->currentTime()).
Seek ==
    /\ ~crashed
    /\ \E frame \in 0..MaxFrame : Return([Entry EXCEPT !.ann.frame = frame])

AnnotationInputs ==
    Inputs({<<<<MaxDim, 1>>, 0>>}, {Box(0, 0, 0, 0)}, {<<"none", TRUE>>},
           {FALSE}, {<<FALSE, NoProbe>>}, {{"annotations"}})

Shape(kind, alpha) ==
    [kind |-> kind, alpha |-> alpha, matrix |-> "stored", view |-> "stored"]
Annotation(frame, allFrames, shapes) ==
    [frame |-> frame, allFrames |-> allFrames, shapes |-> shapes]

\* One annotation of a stroke and a text, both opaque, on any frame and with
\* any ghost window.
GhostAnnotations ==
    {[NoAnnotations EXCEPT
         !.ghostPrevious = p, !.ghostNext = n,
         !.annotations = <<Annotation(f, all, <<Shape("stroke", One),
                                               Shape("text", One)>>)>>] :
        p \in 0..MaxGhost, n \in 0..MaxGhost, f \in 0..MaxFrame, all \in BOOLEAN}

GhostInit ==
    /\ Constructed
    /\ Idle
    /\ ann \in GhostAnnotations
    /\ USE_OPENGL2 \in BOOLEAN
    /\ NoWidgets

\* Two annotations, on frames 0 and 1, of up to MaxShapes shapes each.
Palette == {Shape("stroke", <<1, 2>>), Shape("text", One),
            Shape("emptyText", <<1, 2>>)}
ShapeLists == UNION {[1..n -> Palette] : n \in 0..MaxShapes}
ShapeAnnotations ==
    {[NoAnnotations EXCEPT
         !.ghostPrevious = 3, !.ghostNext = 2,
         !.annotations = <<Annotation(0, FALSE, s1), Annotation(1, all, s2)>>] :
        s1 \in ShapeLists, s2 \in ShapeLists, all \in BOOLEAN}

ShapesInit ==
    /\ Constructed
    /\ Idle
    /\ ann \in ShapeAnnotations
    /\ USE_OPENGL2 \in BOOLEAN
    /\ NoWidgets

AnnotationNext ==
    \/ setContext
    \/ Seek
    \/ Draw(AnnotationInputs)

SpecGhost == GhostInit /\ [][AnnotationNext]_vars
SpecShapes == ShapesInit /\ [][AnnotationNext]_vars


(***************************************************************************)
(* SpecOverlays: frames drawn with any set of overlays switched on, with   *)
(* and without a selection, in both builds.                                *)
(***************************************************************************)
OverlayInputs ==
    Inputs({<<<<MaxDim, 1>>, 0>>}, {Box(0, 0, 0, 0), Box(0, 0, 1, 0)},
           {<<"none", FALSE>>, <<"none", TRUE>>}, {TRUE}, {<<FALSE, NoProbe>>},
           SUBSET Overlays)

OverlaysInit ==
    /\ Constructed
    /\ Idle
    /\ ann = OneAnnotation
    /\ USE_OPENGL2 \in BOOLEAN
    /\ NoWidgets

OverlaysNext ==
    \/ setContext
    \/ Draw(OverlayInputs)
    \/ Hide

SpecOverlays == OverlaysInit /\ [][OverlaysNext]_vars


(***************************************************************************)
(* SpecParity: frames and readback cycles counted from initialisation;     *)
(* frames with and without a selection, with and without a probe by the    *)
(* pixel bar, and probes between the frames.                               *)
(***************************************************************************)
ParityInputs ==
    Inputs({<<<<MaxDim, 1>>, 0>>}, {Box(0, 0, 0, 0), Box(0, 0, 1, 0)},
           {<<"none", TRUE>>}, {FALSE},
           {<<FALSE, NoProbe>>, <<TRUE, Probe(TRUE, FALSE, "Stop", 0)>>}, {{}})

ParityProbes == {Probe(TRUE, FALSE, "Forward", 0), Probe(TRUE, TRUE, "Stop", 1)}

ParityInit ==
    /\ Constructed
    /\ count = [NoCount EXCEPT !.on = TRUE]
    /\ applied = NotApplied
    /\ ann = NoAnnotations
    /\ USE_OPENGL2 \in BOOLEAN
    /\ NoWidgets

ParityNext ==
    \/ setContext
    \/ Draw(ParityInputs)
    \/ ReadPixel(ParityProbes)
    \/ Hide

SpecParity == ParityInit /\ [][ParityNext]_vars


(***************************************************************************)
(* SpecArea: _calculateColorArea applied to an image of two flat halves    *)
(* (one flat colour when the halves are equal) and a normalized selection  *)
(* of the readback image.                                                  *)
(***************************************************************************)
AreaSamples == {0 - Unit, 0, Unit \div 2, Unit, 2 * Unit}

AreaImages == {Image(a, b, split) : a \in AreaSamples, b \in AreaSamples,
                                    split \in 1..MaxBox - 1}

AreaBoxes == {box \in {Box(x0, y0, x1, y1) : x0 \in 0..MaxBox, y0 \in 0..MaxBox,
                                            x1 \in 0..MaxBox, y1 \in 0..MaxBox} :
                 nonEmpty(box) /\ normalized(box) = box}

AreaInit ==
    /\ Constructed
    /\ count = NoCount
    /\ ann = NoAnnotations
    /\ USE_OPENGL2 = FALSE
    /\ NoWidgets
    /\ applied \in {[op |-> "_calculateColorArea", image |-> image, box |-> box,
                     done |-> FALSE, info |-> <<>>] :
                        image \in AreaImages, box \in AreaBoxes}

CalculateColorArea ==
    /\ applied.op = "_calculateColorArea"
    /\ ~applied.done
    /\ applied' = [applied EXCEPT !.done = TRUE,
                                  !.info = areaInfo(applied.image, applied.box)]
    /\ UNCHANGED <<gl, valid, fontSystem, pbo, trace, crashed, hidden, cycles,
                   stats, reads, rgba, ann, USE_OPENGL2, count, timeline, panel>>

SpecArea == AreaInit /\ [][CalculateColorArea]_vars


(***************************************************************************)
(* SpecDecode: _getPixelValue applied to an image of every pixel type, of  *)
(* odd and even sizes, at positions inside and just outside the image,     *)
(* with each mirror setting, into a zero and a non-zero sample.  A read    *)
(* outside the buffer is undefined: it yields some byte or faults.         *)
(***************************************************************************)
DecodeImages ==
    {[type |-> type, size |-> <<w, h>>, data |-> data] :
        type \in PixelTypes, w \in 1..MaxSize, h \in 1..MaxSize,
        data \in {"ones", "half", "ramp"}}

DecodeInputs ==
    {[op |-> "_getPixelValue", rgba |-> entry, image |-> image, pos |-> pos,
      mirror |-> mirror, done |-> FALSE] :
        entry \in {Color4f(0, 0, 0, 0), Color4f(2, 3, 5, 7)},
        image \in DecodeImages,
        pos \in (0 - 1..MaxSize) \X (0 - 1..MaxSize),
        mirror \in BOOLEAN \X BOOLEAN}

DecodeInit ==
    /\ Constructed
    /\ count = NoCount
    /\ ann = NoAnnotations
    /\ USE_OPENGL2 = FALSE
    /\ NoWidgets
    /\ applied \in {in \in DecodeInputs : /\ in.pos[1] <= in.image.size[1]
                                          /\ in.pos[2] <= in.image.size[2]}

\* The bytes read for the channels of a sample that lie outside the buffer.
ReadOutside(image, sample) ==
    \E c \in {sample.r, sample.g, sample.b, sample.a} :
        /\ c.width > 0
        /\ \/ c.at < 0
           \/ c.at + c.width > getDataByteCount(image.type, image.size[1],
                                                image.size[2])

GetPixelValue ==
    /\ applied.op = "_getPixelValue"
    /\ ~applied.done
    /\ \E beyond \in {0, 255}, fault \in BOOLEAN :
          LET out == _getPixelValue(applied.rgba, applied.image, applied.pos,
                                    applied.mirror, beyond)
          IN  /\ crashed' = (fault /\ ReadOutside(applied.image, out.sample))
              /\ applied' = [op |-> applied.op, rgba |-> applied.rgba,
                             image |-> applied.image, pos |-> applied.pos,
                             mirror |-> applied.mirror, done |-> TRUE,
                             out |-> IF crashed' THEN [sample |-> applied.rgba,
                                                       steps |-> <<>>]
                                     ELSE out]
    /\ UNCHANGED <<gl, valid, fontSystem, pbo, trace, hidden, cycles, stats, reads,
                   rgba, ann, USE_OPENGL2, count, timeline, panel>>

SpecDecode == DecodeInit /\ [][GetPixelValue]_vars


(***************************************************************************)
(* SpecReads: the elements of the mapped image that the colour-area scan   *)
(* and the pixel probe read.  The selection is any box with its corners    *)
(* within the render size, in any order; the mouse is anywhere in a window *)
(* that is one pixel larger than the image on every side.                  *)
(***************************************************************************)
\* p.selection as the code that sets it leaves it: within the render size
ReadsSelections ==
    {Box(x0, y0, x1, y1) : x0 \in 0..MaxDim, y0 \in 0..MaxDim,
                           x1 \in 0..MaxDim, y1 \in 0..MaxDim}

\* probes that take the ring path, with the mouse anywhere in the window
ReadsProbes ==
    {ProbeAt(Probe(TRUE, FALSE, "Forward", 0), <<mx, my>>, <<1, 1>>, zoom) :
        mx \in 0..MaxDim + 1, my \in 0..MaxDim + 1, zoom \in 1..2}

ReadsInputs ==
    Inputs({<<<<MaxDim, MaxDim>>, 0>>}, ReadsSelections, {<<"none", TRUE>>},
           {TRUE},
           {<<FALSE, NoProbe>>} \cup
               {<<TRUE, ProbeAt(Probe(TRUE, FALSE, "Forward", 0), <<m, m>>, <<1, 1>>, 1)>> :
                   m \in 0..MaxDim + 1},
           {{}})

ReadsInit ==
    /\ Constructed
    /\ Idle
    /\ ann = NoAnnotations
    /\ USE_OPENGL2 = FALSE
    /\ NoWidgets

ReadsNext ==
    \/ setContext
    \/ Draw(ReadsInputs)
    \/ ReadPixel(ReadsProbes)

SpecReads == ReadsInit /\ [][ReadsNext]_vars


(***************************************************************************)
(* Properties.                                                             *)
(***************************************************************************)
Has(e) == \E i \in 1..Len(trace) : trace[i] = e
LastCycle == cycles[Len(cycles)]

\* C1: in every readback cycle after the first since the last
\* (re)initialisation, whether started by draw() or by the pixel probe, the
\* slot that is mapped is the slot the previous cycle copied into, and is not
\* the slot this cycle copies into.
C1_MapsPreviousCopy ==
    \A n \in 2..Len(cycles) :
        cycles[n].map # NoSlot =>
            /\ cycles[n].map = cycles[n - 1].copy
            /\ cycles[n].map # cycles[n].copy

\* A probe's ring cycle that follows a cycle and maps a slot with a copy in it.
C1_Witness ==
    /\ Len(cycles) >= 2
    /\ LastCycle.map # NoSlot
    /\ LastCycle.mapCopied
    /\ rgba = "ring"

\* C2: index and nextIndex are 0 or 1 and differ in every state; the most
\* recent copy targets slot index, and a mapped slot is slot nextIndex.
C2_IndexAndNextIndex ==
    /\ gl.index \in {0, 1}
    /\ gl.nextIndex \in {0, 1}
    /\ gl.index # gl.nextIndex
    /\ gl.image # NoSlot => gl.image = gl.nextIndex
    /\ cycles # <<>> =>
          /\ LastCycle.copy = gl.index
          /\ LastCycle.map # NoSlot => LastCycle.map = gl.nextIndex

\* After FL_HIDE, with the ring advanced to index 1 by a cycle that mapped.
C2_Witness ==
    /\ hidden /\ ~valid
    /\ pbo[0].name = "zero"
    /\ cycles # <<>> /\ LastCycle.map = 0
    /\ gl.index = 1


\* C6 as stated: when the offscreen-buffer creation or drawVideo throws during
\* draw(), the exception is caught and logged, no later step of the frame is
\* executed (no clear, no blit, no readback or analysis, no panel update, no
\* overlay) and nothing is propagated.
BackendThrew == Has("OffscreenBuffer::create throws") \/ Has("drawVideo throws")
C7_NoStatisticsFromNothing ==
    stats.computed => stats.visited > 0 /\ stats.num > 0

\* C8 as stated: after FL_HIDE no released handle is used: while the window
\* is not valid again _readPixel touches neither GL state nor the sample, and
\* draw() never goes through a null render object or a null shader.
C8_NoReleasedHandleUsed ==
    hidden =>
        /\ ~valid =>
              /\ rgba = "untouched"
              /\ \A i \in 1..Len(trace) : trace[i] = "glDeleteBuffers"
        /\ ~Has("nullRender")
        /\ ~Has("nullShader")

\* C9 as stated: every slot an asynchronous copy is issued into, and every
\* slot that is mapped, has storage of exactly w x h x 4 floats of the current
\* offscreen buffer.
C9_SlotsHaveExactStorage ==
    \A n \in 1..Len(cycles) : cycles[n].copyExact /\ cycles[n].mapExact

\* C10 as stated: a draw() that runs _initializeGL leaves the window valid and
\* creates the shader, the render object, the offscreen buffer and the
\* storage of both slots anew before it uses them.
C10_AllCreatedAnew ==
    Has("glGenBuffers") =>
        /\ valid
        /\ Has("blit") => Has("Shader::create") /\ Has("OffscreenBuffer::create")
        /\ Has("drawVideo") => Has("Render::create")
        /\ (Has("copy0") \/ Has("copy1")) => Has("glBufferData")


\* The draw calls of annotation i issued in a pass, as the shape indices.
CallsOf(i, passes) ==
    LET s == SelectSeq(ann.drawCalls, LAMBDA c : c.ann = i /\ c.pass \in passes)
    IN  [k \in 1..Len(s) |-> s[k].shape]
Reverse(s) == [k \in 1..Len(s) |-> s[Len(s) + 1 - k]]
\* The indices of the shapes of annotation i that are, or are not, texts.
ShapesOf(i, text) ==
    SelectSeq([j \in 1..Len(ann.annotations[i].shapes) |-> j],
              LAMBDA j : (ann.annotations[i].shapes[j].kind \in TextKinds) = text)
\* The annotations of the draw calls of the given passes, in call order.
AnnotationsOf(passes) ==
    LET s == SelectSeq(ann.drawCalls, LAMBDA c : c.pass \in passes)
    IN  [k \in 1..Len(s) |-> s[k].ann]
Ascending(s) == \A k \in 1..Len(s) - 1 : s[k] <= s[k + 1]

\* The alpha multiplier as the claim states it.
ClosedForm(c, f, p, n, allFrames) ==
    IF allFrames \/ f = c THEN One
    ELSE IF 1 <= c - f /\ c - f <= p - 1 THEN <<p - (c - f), p>>
    ELSE IF 1 <= f - c /\ f - c <= n - 1 THEN <<n - (f - c), n>>
    ELSE Zero

\* C3: after a frame that drew the annotations, every annotation was drawn
\* iff the closed-form multiplier (1 when allFrames or f = c, 1 - (c-f)/p for
\* 1 <= c-f <= p-1, 1 - (f-c)/n for 1 <= f-c <= n-1, else 0) is non-zero, and
\* each of its (opaque) shapes was drawn with exactly that multiplier as alpha.
C3_AlphaMultiplier ==
    Has("annotations") =>
        \A i \in 1..Len(ann.annotations) :
            LET a == ann.annotations[i]
                m == ClosedForm(ann.frame, a.frame, ann.ghostPrevious,
                                ann.ghostNext, a.allFrames)
            IN  /\ (CallsOf(i, {"GL", "GL2"}) # <<>>) <=> (m[1] # 0)
                /\ \A k \in 1..Len(ann.drawCalls) :
                       ann.drawCalls[k].ann = i => Eq(ann.drawCalls[k].alpha, m)

\* Ghost window 5, current frame two after the annotation's: drawn at 3/5.
C3_Witness ==
    /\ Has("annotations")
    /\ ann.ghostPrevious = 5
    /\ ~ann.annotations[1].allFrames
    /\ ann.frame - ann.annotations[1].frame = 2
    /\ ann.drawCalls # <<>>
    /\ Eq(ann.drawCalls[1].alpha, <<3, 5>>)

\* C4: in every step, each draw call of the frame used the shape's stored
\* alpha (its value before the step) times the annotation's multiplier, and
\* the stored alpha of every shape is after the step what it was before.
C4_EffectiveAlphaAndRestore ==
    [][/\ \A k \in 1..Len(ann'.drawCalls) :
             LET call == ann'.drawCalls[k]
                 a == ann.annotations[call.ann]
             IN  Eq(call.alpha,
                    Mul(a.shapes[call.shape].alpha,
                        alphamult(ann.frame, a, ann.ghostPrevious, ann.ghostNext)))
       /\ \A i \in 1..Len(ann.annotations) :
             \A j \in 1..Len(ann.annotations[i].shapes) :
                ann'.annotations[i].shapes[j].alpha = ann.annotations[i].shapes[j].alpha
      ]_vars

\* A shape of stored alpha 1/2 drawn at multiplier 1/2, alpha 1/4 in effect,
\* and still stored with alpha 1/2.
C4_Witness ==
    /\ Has("annotations")
    /\ \E k \in 1..Len(ann.drawCalls) :
          LET call == ann.drawCalls[k]
          IN  /\ Eq(call.alpha, <<1, 4>>)
              /\ ann.annotations[call.ann].shapes[call.shape].alpha = <<1, 2>>

\* C5 as stated: the draw calls of every drawn annotation are its shapes
\* n, ..., 1, each exactly once, and the annotations are drawn in the order
\* the player supplied them.
C5_ReverseEachOnce ==
    Has("annotations") =>
        /\ \A i \in 1..Len(ann.annotations) :
              CallsOf(i, {"GL", "GL2"}) # <<>> =>
                 CallsOf(i, {"GL", "GL2"}) =
                    Reverse([j \in 1..Len(ann.annotations[i].shapes) |-> j])
        /\ Ascending(AnnotationsOf({"GL", "GL2"}))

\* C5, amended: without USE_OPENGL2 the draw calls of a drawn annotation are
\* its shapes n, ..., 1, each exactly once.  With USE_OPENGL2 _drawAnnotations
\* draws the shapes that are not texts, in reverse stored order and each
\* once, and _drawAnnotationsGL2 afterwards draws the texts, in stored order
\* and each once.  Each pass takes the annotations in the player's order.
C5_ReversePerPass ==
    Has("annotations") =>
        /\ \A i \in 1..Len(ann.annotations) :
              LET drawn == alphamult(ann.frame, ann.annotations[i],
                                     ann.ghostPrevious, ann.ghostNext)[1] # 0
                  all == [j \in 1..Len(ann.annotations[i].shapes) |-> j]
              IN  IF ~drawn THEN CallsOf(i, {"GL", "GL2"}) = <<>>
                  ELSE IF ~USE_OPENGL2
                  THEN /\ CallsOf(i, {"GL"}) = Reverse(all)
                       /\ CallsOf(i, {"GL2"}) = <<>>
                  ELSE /\ CallsOf(i, {"GL"}) = Reverse(ShapesOf(i, FALSE))
                       /\ CallsOf(i, {"GL2"}) = ShapesOf(i, TRUE)
        /\ Ascending(AnnotationsOf({"GL"}))
        /\ Ascending(AnnotationsOf({"GL2"}))
        /\ \A k \in 1..Len(ann.drawCalls) - 1 :
              ann.drawCalls[k].pass = "GL2" => ann.drawCalls[k + 1].pass = "GL2"

\* A USE_OPENGL2 build drew an annotation of a stroke and then a text: the
\* stroke in the first pass, the text, stored last, in the second.
C5_Witness ==
    /\ USE_OPENGL2
    /\ Has("annotations")
    /\ Len(ann.annotations[1].shapes) = 2
    /\ ann.annotations[1].shapes[1].kind = "stroke"
    /\ ann.annotations[1].shapes[2].kind = "text"
    /\ CallsOf(1, {"GL"}) = <<1>>
    /\ CallsOf(1, {"GL2"}) = <<2>>


\* Where and how often a call occurs in the trace of the last handler.
Pos(e) == CHOOSE i \in 1..Len(trace) : trace[i] = e
Times(e) == Cardinality({i \in 1..Len(trace) : trace[i] = e})
Before(e, f) == (Has(e) /\ Has(f)) => Pos(e) < Pos(f)
\* The overlay steps, each at most once and after the blit and after every
\* call of the readback and analysis step.
OverlaySteps == {"selectionOutline", "safeAreas", "annotations", "cursor", "hud"}
ReadbackSteps == {"blit", "copy0", "copy1", "map0", "map1", "mapNULL",
                  "calculateColorArea", "colorAreaTool.update", "getPixelValue",
                  "readImage", "glReadPixelsSync", "unmap", "bindPBO0"}
OverlaysOnceAndLast ==
    \A e \in OverlaySteps :
        /\ Times(e) <= 1
        /\ Has(e) =>
              /\ Has("blit") /\ Has("bindPBO0")
              /\ \A i \in 1..Len(trace) : trace[i] \in ReadbackSteps => i < Pos(e)

C16_RecordsOnlyRead ==
    [][ann'.annotations = ann.annotations]_vars

\* C16, amended: a frame leaves the colour and alpha and kind of every shape
\* as they were, and a shape that no pass drew (a shape of a skipped
\* annotation among them) is unchanged in every field; a shape that was
\* drawn is left with its stored matrix overwritten by the matrix it was
\* drawn with, and only a text shape drawn by the GL2 pass has its view
\* fields overwritten as well.
C16_AlphaKeptMatrixOverwritten ==
    [][/\ Len(ann'.annotations) = Len(ann.annotations)
       /\ \A i \in 1..Len(ann.annotations) :
             LET old == ann.annotations[i]
                 new == ann'.annotations[i]
             IN  /\ new.frame = old.frame
                 /\ new.allFrames = old.allFrames
                 /\ Len(new.shapes) = Len(old.shapes)
                 /\ \A j \in 1..Len(old.shapes) :
                       LET calls == SelectSeq(ann'.drawCalls,
                                        LAMBDA c : c.ann = i /\ c.shape = j)
                       IN  /\ new.shapes[j].kind = old.shapes[j].kind
                           /\ new.shapes[j].alpha = old.shapes[j].alpha
                           /\ calls = <<>> => new.shapes[j] = old.shapes[j]
                           /\ calls # <<>> =>
                                 /\ new.shapes[j].matrix = calls[Len(calls)].matrix
                                 /\ new.shapes[j].view =
                                       IF calls[Len(calls)].pass = "GL2"
                                       THEN "viewport" ELSE old.shapes[j].view
      ]_vars

\* A frame that drew a shape of the second annotation, whose stored matrix
\* is now the one it was drawn with while its alpha is as stored, and that
\* skipped the first annotation, whose shape is as stored in every field.
C16_Witness ==
    /\ Has("annotations")
    /\ Len(ann.annotations) = 2
    /\ \E k \in 1..Len(ann.drawCalls) :
          LET call == ann.drawCalls[k]
              shape == ann.annotations[call.ann].shapes[call.shape]
          IN  /\ call.ann = 2
              /\ shape.matrix = call.matrix
              /\ shape.matrix # "stored"
              /\ shape.alpha = <<1, 2>>
    /\ \A k \in 1..Len(ann.drawCalls) : ann.drawCalls[k].ann # 1
    /\ ann.annotations[1].shapes # <<>>
    /\ \A j \in 1..Len(ann.annotations[1].shapes) :
          ann.annotations[1].shapes[j] \in Palette


\* The frame just drawn read back: the handler was a draw() and a copy was
\* issued in it.
FrameReadBack ==
    /\ count.on
    /\ Has("glClear")
    /\ Has("copy0") \/ Has("copy1")

\* C18 as stated: with the drawn frames counted N = 0, 1, 2, ... from
\* initialisation, the readback of frame N copies into slot N mod 2 and maps
\* slot (N + 1) mod 2.
C18_SlotIsFrameParity ==
    FrameReadBack =>
        /\ LastCycle.copy = (count.frames - 1) % 2
        /\ LastCycle.map \in {NoSlot, count.frames % 2}

\* C18, amended: with the readback cycles counted k = 1, 2, ... from
\* initialisation, whether made by a frame with an active selection or by the
\* pixel probe, cycle k copies into slot k mod 2 and maps slot (k + 1) mod 2;
\* the first cycle copies into slot 1 and maps slot 0.
C18_SlotIsCycleParity ==
    count.on =>
        \A n \in 1..Len(cycles) :
            LET k == count.cycles - Len(cycles) + n
            IN  /\ k >= 1
                /\ cycles[n].copy = k % 2
                /\ cycles[n].map \in {NoSlot, (k + 1) % 2}

\* The third frame since initialisation is the first with a selection: frame
\* N = 2 copies into slot 1 and maps slot 0.
C18_Witness ==
    /\ FrameReadBack
    /\ count.frames = 3
    /\ count.cycles = 1
    /\ LastCycle.copy = 1
    /\ LastCycle.map = 0


\* _calculateColorArea has been applied to a region of non-zero area.
AreaAnalysed ==
    /\ applied.op = "_calculateColorArea"
    /\ applied.done
    /\ applied.box[1] < applied.box[3]
    /\ applied.box[2] < applied.box[4]

\* The region holds one colour: the columns from box.min.x to box.max.x.
AreaFlat ==
    \A X \in applied.box[1]..applied.box[3] :
        pixelAt(applied.image, X, 0) = pixelAt(applied.image, applied.box[1], 0)

\* C14 as stated: for a region of non-zero area and constant colour C, be C
\* positive, zero or negative, min = max = mean = C and diff = 0, and
\* likewise min = max = mean and diff = 0 in the secondary colour space.
C14_ConstantRegion ==
    (AreaAnalysed /\ AreaFlat) =>
        LET C == pixelAt(applied.image, applied.box[1], 0)
            info == applied.info
        IN  /\ info.rgba.min = C
            /\ info.rgba.max = C
            /\ info.rgba.mean[1] = C * info.rgba.mean[2]
            /\ info.rgba.diff = 0
            /\ info.hsv.min = info.hsv.max
            /\ info.hsv.mean[1] = info.hsv.min * info.hsv.mean[2]
            /\ info.hsv.diff = 0

\* The region holds sample A in one half of its columns and B in the other.
AreaHalves ==
    /\ applied.box[1] < applied.image.split
    /\ applied.image.split - applied.box[1] = applied.box[3] - applied.image.split

\* C15 as stated: the divisor box.w() * box.h() is the number of pixels the
\* scan visits, the mean is the sum of the visited samples over their
\* number, diff = max - min, and a region of half A and half B has the mean
\* (A + B) / 2.
C15_MeanOverVisited ==
    AreaAnalysed =>
        LET info == applied.info
            box == applied.box
        IN  /\ info.num = Cardinality({<<X, Y>> \in (0..MaxBox) \X (0..MaxBox) :
                                          /\ box[1] <= X /\ X < box[3]
                                          /\ box[2] <= Y /\ Y < box[4]})
            /\ info.visited = info.num
            /\ info.rgba.mean[2] = info.visited
            /\ info.rgba.diff = info.rgba.max - info.rgba.min
            /\ AreaHalves =>
                  2 * info.rgba.mean[1] =
                      (applied.image.a + applied.image.b) * info.rgba.mean[2]


\* _getPixelValue has been applied; its lookup coordinates, and whether
\* they are inside the image.
Decoded == applied.op = "_getPixelValue" /\ applied.done
DecodedX == lookupX(applied.image, applied.pos, applied.mirror)
DecodedY == lookupY(applied.image, applied.pos, applied.mirror)
InRange ==
    /\ 0 <= DecodedX /\ DecodedX < applied.image.size[1]
    /\ 0 <= DecodedY /\ DecodedY < applied.image.size[2]
\* The channels of the decoded sample that were read from the image.
ChannelsRead ==
    {c \in {applied.out.sample.r, applied.out.sample.g, applied.out.sample.b,
            applied.out.sample.a} : c.width > 0}

\* C12 as stated: a lookup whose coordinates, after flip and mirror, are
\* outside the image reads nothing and leaves the four channels as they were
\* passed in; a lookup inside the image reads only bytes of the image buffer.
C12_NothingOutsideRead ==
    Decoded =>
        /\ ~InRange => /\ applied.out.sample = applied.rgba
                       /\ applied.out.steps = <<>>
                       /\ ~crashed
        /\ InRange => /\ ~crashed
                      /\ ~ReadOutside(applied.image, applied.out.sample)

\* The maximum of the integer samples of a pixel type, and their bytes.
IntegerTypes == U8Types \cup U16Types \cup U32Types \cup YUVTypes \cup {"RGB_U10"}
FormatMax(type) ==
    CASE type \in U8Types \cup YUV8Types -> U8Max
      [] type = "RGB_U10" -> <<0, 1023>>
      [] type \in U16Types \cup YUV16Types -> U16Max
      [] OTHER -> UINT32_MAX
SampleBytes(type) ==
    CASE type \in U8Types \cup YUV8Types -> 1
      [] type \in U16Types \cup F16Types \cup YUV16Types -> 2
      [] OTHER -> 4

\* C13 as stated: an integer format decodes a stored value v to v / M with
\* M = 255, 1023, 65535 or 2^32 - 1 by its depth, planar YUV at 16 bits
\* being read as full 16-bit values before levels and matrix are applied;
\* the maximum stored value decodes to exactly 1, the 16-bit value 32768
\* to 32768 / 65535, and a format without alpha yields alpha 1.  (Stated for
\* the lookups that read inside the buffer.)
C13_DividedByFormatMaximum ==
    (/\ Decoded /\ InRange /\ ~crashed
     /\ applied.image.type \in IntegerTypes
     /\ ~ReadOutside(applied.image, applied.out.sample)) =>
        LET type == applied.image.type
        IN  /\ ChannelsRead # {}
            /\ \A c \in ChannelsRead :
                  /\ c.over = FormatMax(type)
                  /\ c.width = SampleBytes(type)
                  /\ applied.image.data = "ones" => c.raw = c.over
                  /\ (applied.image.data = "half" /\ SampleBytes(type) = 2) =>
                        c.raw = <<0, 32768>>
            /\ type \notin LATypes \cup RGBATypes => applied.out.sample.a = Float(1)
            /\ applied.out.steps = IF type \in YUVTypes
                                   THEN <<"checkLevels", "to_rgb">> ELSE <<>>

\* The pixel types that match none of the cases of the decoder.
Unmatched == {"None", "L_F32", "LA_F32"}

InterleavedTypes == LTypes \cup LATypes \cup RGBTypes \cup RGBATypes
BytesPerPixel(type) ==
    IF type = "RGB_U10" THEN 4 ELSE getChannelCount(type) * SampleBytes(type)

\* C19 as stated: for the interleaved formats the bytes of pixel (X, Y)
\* start at byte (Y * w + X) * bytes per pixel, with 4 bytes per pixel for
\* RGB_U10, so that distinct pixels share no byte and the bytes of the last
\* pixel end within the buffer.
C19_InterleavedOffset ==
    (Decoded /\ InRange /\ ~crashed /\ applied.image.type \in InterleavedTypes) =>
        LET type == applied.image.type
            w == applied.image.size[1]
            h == applied.image.size[2]
            first == (DecodedY * w + DecodedX) * BytesPerPixel(type)
        IN  /\ \A c \in ChannelsRead :
                  /\ first <= c.at
                  /\ c.at + c.width <= first + BytesPerPixel(type)
            /\ ChannelsRead # {} => applied.out.sample.r.at = first
            /\ first + BytesPerPixel(type) <= getDataByteCount(type, w, h)

\* The chroma subsampling of a planar type.
SubX(type) == IF type \in {"YUV_444P_U8", "YUV_444P_U16"} THEN 1 ELSE 2
SubY(type) == IF type \in {"YUV_420P_U8", "YUV_420P_U16"} THEN 2 ELSE 1

\* C20 as stated: for every planar YUV type and every size the luma sample
\* of (X, Y) is element Y * w + X of the luma plane and the chroma samples
\* are element (Y / subY) * (w / subX) + X / subX of the U plane, which
\* follows the luma plane, and of the V plane, which follows the U plane.
C20_PlanarOffsets ==
    (Decoded /\ InRange /\ ~crashed /\ applied.image.type \in YUVTypes) =>
        LET type == applied.image.type
            w == applied.image.size[1]
            h == applied.image.size[2]
            bytes == SampleBytes(type)
            luma == w * h * bytes
            chroma == (w \div SubX(type)) * (h \div SubY(type)) * bytes
            element == (DecodedY \div SubY(type)) * (w \div SubX(type))
                          + DecodedX \div SubX(type)
            sample == applied.out.sample
        IN  /\ sample.r.at = (DecodedY * w + DecodedX) * bytes
            /\ sample.g.at = luma + element * bytes
            /\ sample.b.at = luma + chroma + element * bytes
            /\ \A c \in {sample.r, sample.g, sample.b} : c.width = bytes


\* The raw values the scan of the analysed region read from the buffer.
AreaValues ==
    {pixelAt(applied.image, X, Y) : X \in applied.box[1]..applied.box[3] - 1,
                                    Y \in applied.box[2]..applied.box[4] - 1}

\* C21 as stated: for a selection of non-zero area rgba.min and rgba.max are
\* the least and the greatest of the raw values read, also when all of them
\* are <= 0 or some exceed 1, and the values given to the secondary
\* colour-space conversion are the raw values clamped to [0,1].
C21_TrueMinMaxOfRaw ==
    AreaAnalysed =>
        /\ applied.info.rgba.min \in AreaValues
        /\ applied.info.rgba.max \in AreaValues
        /\ \A v \in AreaValues : /\ applied.info.rgba.min <= v
                                  /\ v <= applied.info.rgba.max
        /\ applied.info.given =
              {<<v, IF v < 0 THEN 0 ELSE IF v > Unit THEN Unit ELSE v>> :
                  v \in AreaValues}


\* C22 as stated: every element of the mapped readback image that the
\* colour-area scan or the pixel probe reads has an index in [0, 4*w*h) for
\* the render size w x h.
C22_ReadsWithinImage ==
    \A i \in reads :
        /\ 0 <= i
        /\ i + 3 < 4 * gl.buffer.size[1] * gl.buffer.size[2]


\* An 8-bit luminance image has been sampled at a position inside it: the
\* one byte read is at row * w + column.
ProbedInside ==
    /\ Decoded
    /\ applied.image.type = "L_U8"
    /\ 0 <= applied.pos[1] /\ applied.pos[1] < applied.image.size[1]
    /\ 0 <= applied.pos[2] /\ applied.pos[2] < applied.image.size[2]
Reflected(size, c) == size - c - 1
\* The reflections applied to their own result give back the position,
\* and the coordinates looked up are inside the image.
ReflectionsUndo ==
    LET image == applied.image
        once == <<lookupX(image, applied.pos, applied.mirror),
                  lookupY(image, applied.pos, applied.mirror)>>
    IN  /\ lookupX(image, once, applied.mirror) = applied.pos[1]
        /\ lookupY(image, once, applied.mirror) = applied.pos[2]
        /\ 0 <= once[1] /\ once[1] < image.size[1]
        /\ 0 <= once[2] /\ once[2] < image.size[2]

\* C23 as stated: for a probe at (x, y) the column read is x with mirror.x
\* off and w - x - 1 with it on, the row read is y with mirror.y off and
\* h - y - 1 with it on; the reflection applied twice is the identity and
\* keeps a coordinate in range.
C23_RowIsY ==
    ProbedInside =>
        LET w == applied.image.size[1]
            h == applied.image.size[2]
            column == IF applied.mirror[1] THEN Reflected(w, applied.pos[1])
                      ELSE applied.pos[1]
            row == IF applied.mirror[2] THEN Reflected(h, applied.pos[2])
                   ELSE applied.pos[2]
        IN  /\ applied.out.sample.r.at = row * w + column
            /\ ReflectionsUndo

\* C23, amended: the column read is x with mirror.x off and w - x - 1 with
\* it on; the row read is h - y - 1 with mirror.y off and y with it on (the
\* decoder flips the row, and mirror.y flips it back); each reflection
\* applied twice is the identity and keeps a coordinate in range.
C23_RowIsFlipped ==
    ProbedInside =>
        LET w == applied.image.size[1]
            h == applied.image.size[2]
            column == IF applied.mirror[1] THEN Reflected(w, applied.pos[1])
                      ELSE applied.pos[1]
            row == IF applied.mirror[2] THEN applied.pos[2]
                   ELSE Reflected(h, applied.pos[2])
        IN  /\ applied.out.sample.r.at = row * w + column
            /\ ReflectionsUndo

\* A 2 x 3 image probed at (1, 0) without mirroring: the byte read is the
\* one of column 1 in row 2, not in row 0.
C23_Witness ==
    /\ ProbedInside
    /\ applied.image.size = <<2, 3>>
    /\ applied.pos = <<1, 0>>
    /\ applied.mirror = <<FALSE, FALSE>>
    /\ applied.out.sample.r.at = 5


(***************************************************************************)
(* SpecProbe: the pixel probe in all its modes over clips of 0 to          *)
(* MaxDuration + 1 frames, stopped and playing; `applied` keeps what the   *)
(* last probe saw.                                                         *)
(***************************************************************************)
ProbeCases ==
    {Probe(f, p, pb, d) : f \in BOOLEAN, p \in BOOLEAN,
                          pb \in {"Stop", "Forward", "Reverse"},
                          d \in 0..MaxDuration + 1}

ProbeInputs ==
    Inputs({<<<<MaxDim, 1>>, 0>>}, {Box(0, 0, 0, 0), Box(0, 0, 1, 0)},
           {<<"none", TRUE>>}, {FALSE}, {<<FALSE, NoProbe>>}, {{}})

ProbeInit ==
    /\ Constructed
    /\ Idle
    /\ ann = NoAnnotations
    /\ USE_OPENGL2 = FALSE
    /\ NoWidgets

\* Viewport::_readPixel, called outside draw()
ProbePixel ==
    /\ ~crashed
    /\ \E probe \in ProbeCases :
          /\ Returned(_readPixel(Entry, probe))
          /\ applied' = [op |-> "_readPixel", probe |-> probe]
    /\ UNCHANGED <<USE_OPENGL2, timeline, panel>>

ProbeNext ==
    \/ setContext
    \/ Draw(ProbeInputs)
    \/ ProbePixel
    \/ Hide

SpecProbe == ProbeInit /\ [][ProbeNext]_vars

\* C24: in full pixel-value mode the probe issues the direct synchronous
\* glReadPixels only when playback is stopped or the clip has a single frame;
\* while a clip of several frames is playing it never issues it and reads
\* through the readback ring.
C24_SyncOnlyStoppedOrSingleFrame ==
    /\ Has("glReadPixelsSync") =>
          /\ applied.op = "_readPixel"
          /\ applied.probe.full
          /\ applied.probe.players
          /\ \/ applied.probe.playback = "Stop"
             \/ applied.probe.duration = 1
    /\ ( /\ applied.op = "_readPixel"
         /\ applied.probe.full
         /\ applied.probe.players
         /\ applied.probe.playback # "Stop"
         /\ applied.probe.duration > 1 ) =>
          /\ ~Has("glReadPixelsSync")
          /\ rgba \in {"untouched", "ring"}


\* C25: a readback slot is mapped for reading by the CPU only if an
\* asynchronous copy into that slot has been issued since its storage was
\* last allocated, also in the first readback after an initialisation and in
\* the first after a change of the render size that allocates the storage
\* anew.
C25_MappedSlotHoldsACopy ==
    \A n \in 1..Len(cycles) :
        cycles[n].map # NoSlot => cycles[n].mapCopied


Maps == {"map0", "map1"}

\* C26: between events no slot remains mapped: after every draw() and every
\* _readPixel() outside draw(), on every path, gl.image is null and every
\* mapping made during the call has been released before the next mapping
\* and before the end of the call; so FL_HIDE never deletes a slot that is
\* still mapped and a slot is never mapped twice without an unmap between.
C26_NothingLeftMapped ==
    /\ gl.image = NoSlot
    /\ \A i \in 1..Len(trace) :
          trace[i] \in Maps =>
              \E j \in i + 1..Len(trace) :
                  /\ trace[j] = "unmap"
                  /\ \A k \in i + 1..j - 1 :
                        trace[k] \notin Maps \cup {"glDeleteBuffers"}
    /\ Has("glDeleteBuffers") => \A i \in 1..Len(trace) : trace[i] \notin Maps

\* A draw() that mapped a slot, whose pixel probe returned early after its
\* synchronous read, and that released the mapping before it returned.
C26_Witness ==
    /\ \E i \in 1..Len(trace) : trace[i] \in Maps
    /\ Has("glReadPixelsSync")
    /\ Has("unmap")
    /\ gl.image = NoSlot
    /\ ~crashed


\* C27: _drawAnnotations leaves the caller's view-projection matrix as it
\* was: every shape that is not a text with text in it, and the cursor drawn
\* after the annotations, is drawn with draw()'s matrix, whichever shapes
\* were drawn before it.
C27_CallerMatrixUnchanged ==
    /\ \A k \in 1..Len(ann.drawCalls) :
          LET call == ann.drawCalls[k]
              shape == ann.annotations[call.ann].shapes[call.shape]
          IN  (call.pass = "GL" /\ shape.kind # "text") => call.matrix = "mvp"
    /\ Has("cursor") => ann.cursorMvp = "mvp"


\* The indices of the two scans that satisfy the test of their loop.
Matches(frame, annotationFrame, ghostPrevious, ghostNext) ==
    {<<"previous", i>> : i \in {k \in 1..ghostPrevious - 1 :
                                    frame - k = annotationFrame}}
    \cup {<<"next", i>> : i \in {k \in 1..ghostNext - 1 :
                                     frame + k = annotationFrame}}

Up(n) == [k \in 1..n |-> k]
Down(n) == [k \in 1..n |-> n + 1 - k]

\* A scan of a window over the given indices, in their order, that stops at
\* the first match or runs to the end.
RECURSIVE scanOver(_, _, _, _, _, _, _)
scanOver(frame, annotationFrame, window, sign, indices, stop, sofar) ==
    IF indices = <<>> THEN sofar
    ELSE LET i == Head(indices)
             found == <<window - i, window>>
         IN  IF frame + sign * i = annotationFrame
             THEN IF stop THEN found
                  ELSE scanOver(frame, annotationFrame, window, sign,
                                Tail(indices), stop, found)
             ELSE scanOver(frame, annotationFrame, window, sign,
                           Tail(indices), stop, sofar)

\* The multiplier with the scans made in the given way: way[1], way[2] say
\* whether the previous and the next scan go upwards, way[3] whether a scan
\* stops at its first match, way[4] whether the next scan is skipped after a
\* match of the previous one.
alphamultAs(frame, annotation, ghostPrevious, ghostNext, way) ==
    IF frame = annotation.frame \/ annotation.allFrames THEN One
    ELSE LET a == scanOver(frame, annotation.frame, ghostPrevious, -1,
                           IF way[1] THEN Up(ghostPrevious - 1)
                           ELSE Down(ghostPrevious - 1), way[3], Zero)
         IN  IF way[4] /\ a # Zero THEN a
             ELSE scanOver(frame, annotation.frame, ghostNext, 1,
                           IF way[2] THEN Up(ghostNext - 1)
                           ELSE Down(ghostNext - 1), way[3], a)

Ways == BOOLEAN \X BOOLEAN \X BOOLEAN \X BOOLEAN

\* C28: whatever the current frame, the annotation's frame and the two ghost
\* windows, at most one index of the previous and the next scan together
\* satisfies its test; so the multiplier of the code, and the alpha an
\* annotation is drawn with, is the one of a scan in any direction, stopping
\* at the first match or not, skipping the next scan after a match or not.
C28_AtMostOneMatch ==
    \A i \in 1..Len(ann.annotations) :
        LET a == ann.annotations[i]
            code == alphamult(ann.frame, a, ann.ghostPrevious, ann.ghostNext)
        IN  /\ Cardinality(Matches(ann.frame, a.frame, ann.ghostPrevious,
                                    ann.ghostNext)) <= 1
            /\ \A way \in Ways :
                  alphamultAs(ann.frame, a, ann.ghostPrevious, ann.ghostNext,
                              way) = code
            /\ Has("annotations") =>
                  \A k \in 1..Len(ann.drawCalls) :
                      ann.drawCalls[k].ann = i =>
                          \A way \in Ways :
                              Eq(ann.drawCalls[k].alpha,
                                 alphamultAs(ann.frame, a, ann.ghostPrevious,
                                             ann.ghostNext, way))

\* Both ghost windows 5, current frame three after the annotation's: the
\* previous scan matches at 3, the next scan runs without a match, and the
\* annotation is drawn at 2/5.
C28_Witness ==
    /\ Has("annotations")
    /\ ann.ghostPrevious = 5
    /\ ann.ghostNext = 5
    /\ ~ann.annotations[1].allFrames
    /\ ann.frame - ann.annotations[1].frame = 3
    /\ Matches(ann.frame, ann.annotations[1].frame, 5, 5) = {<<"previous", 3>>}
    /\ ann.drawCalls # <<>>
    /\ Eq(ann.drawCalls[1].alpha, <<2, 5>>)


(***************************************************************************)
(* TimelineWidget: seeking while a wide movie plays in reverse.  The       *)
(* record `timeline` holds the player's playback state and current time,   *)
(* whether the movie is wider than 2048 pixels, p.continueReversePlaying,  *)
(* whether p.cacheInfoObserver is installed, the pending FLTK timeouts,    *)
(* p.draggingClip, and three notes: the handler that ran last, whether the *)
(* last callback found the range in the cache, and whether the observer    *)
(* has restarted the playback since the last seek that stopped it.         *)
(***************************************************************************)
\* cache.readAhead and cache.readBehind, in frames
ReadAhead == 2
ReadBehind == 1

\* value.videoFrames: time ranges <<start_time, end_time_exclusive>>
VideoFrames ==
    {{}} \cup {{<<a, b>>} : a \in 0 - ReadAhead..MaxTime,
                           b \in 1..MaxTime + ReadBehind + 1}

TimelineWidget(wide) ==
    [widget |-> TRUE, wide |-> wide, playback |-> "Stop", time |-> 0,
     continueReversePlaying |-> FALSE, cacheInfoObserver |-> FALSE,
     timeouts |-> 0, draggingClip |-> FALSE,
     last |-> "none", found |-> FALSE, restarted |-> FALSE]

\* TimelineWidget::_seek: `seeks` is the test of line 417, `time` the time
\* under the mouse, `dragging` what isDraggingClip() returns.
_seek(w, seeks, time, dragging) ==
    IF seeks
    THEN LET a == [w EXCEPT !.time = time, !.last = "seek"]
         IN  IF w.wide /\ w.playback = "Reverse"
             THEN [a EXCEPT !.playback = "Stop", !.timeouts = @ + 1,
                            !.restarted = FALSE]
             ELSE a
    ELSE [w EXCEPT !.draggingClip = dragging, !.last = "drag"]

\* TimelineWidget::continuePlaying, run by the timeout
continuePlaying(w) ==
    [w EXCEPT !.continueReversePlaying = TRUE, !.cacheInfoObserver = TRUE,
              !.timeouts = @ - 1, !.last = "timeout"]

\* The callback of the cache observer (lines 378-407)
cacheInfoCallback(w, videoFrames) ==
    LET a == [w EXCEPT !.last = "cacheInfo", !.found = FALSE]
        endTime == w.time + ReadBehind
        startTime == endTime - ReadAhead
        found == \E r \in videoFrames : r[1] <= startTime /\ r[2] >= endTime
    IN  IF w.playback # "Stop" /\ w.continueReversePlaying THEN a
        ELSE IF found
        THEN [a EXCEPT !.playback = "Reverse",
                       !.continueReversePlaying = FALSE,
                       !.found = TRUE, !.restarted = TRUE]
        ELSE a

viewport == <<gl, valid, fontSystem, pbo, trace, crashed, hidden, cycles,
              stats, reads, rgba, ann, USE_OPENGL2, count, applied>>

SeekTimeline ==
    /\ \E seeks \in BOOLEAN, time \in 0..MaxTime, dragging \in BOOLEAN :
          /\ (seeks /\ timeline.wide /\ timeline.playback = "Reverse")
                => timeline.timeouts < MaxTimeouts
          /\ timeline' = _seek(timeline, seeks, time, dragging)
    /\ UNCHANGED <<viewport, panel>>

Timeout ==
    /\ timeline.timeouts > 0
    /\ timeline' = continuePlaying(timeline)
    /\ UNCHANGED <<viewport, panel>>

CacheInfo ==
    /\ timeline.cacheInfoObserver
    /\ \E videoFrames \in VideoFrames :
          timeline' = cacheInfoCallback(timeline, videoFrames)
    /\ UNCHANGED <<viewport, panel>>

\* The user starts or stops the playback.
SetPlayback ==
    /\ \E playback \in {"Stop", "Forward", "Reverse"} :
          timeline' = [timeline EXCEPT !.playback = playback, !.last = "user"]
    /\ UNCHANGED <<viewport, panel>>

TimelineInit ==
    /\ Constructed
    /\ Idle
    /\ ann = NoAnnotations
    /\ USE_OPENGL2 = FALSE
    /\ \E wide \in BOOLEAN : timeline = TimelineWidget(wide)
    /\ panel = NoPanel

TimelineNext ==
    \/ SeekTimeline
    \/ Timeout
    \/ CacheInfo
    \/ SetPlayback

SpecTimeline == TimelineInit /\ [][TimelineNext]_vars

\* C29: a seek during the reverse playback of a movie wider than 2048 pixels
\* stops the playback, and the cache observer starts it again in reverse,
\* and only when the cache covers the range; after that restart the observer
\* never changes the playback state again: a playback the user stops later
\* stays stopped.
C29_ObserverRestartsOnce ==
    [][/\ (timeline'.last = "seek" /\ timeline.wide
            /\ timeline.playback = "Reverse") =>
             timeline'.playback = "Stop"
       /\ (timeline'.last = "cacheInfo"
            /\ timeline'.playback # timeline.playback) =>
             (timeline'.playback = "Reverse" /\ timeline'.found)
       /\ (timeline'.last = "cacheInfo" /\ timeline.restarted) =>
             timeline'.playback = timeline.playback
      ]_vars


(***************************************************************************)
(* PanelGroup: a panel that is docked in a DockGroup or floats in a        *)
(* PanelWindow of its own.  A container is the dock, a window or no        *)
(* container.  The record `panel` holds _docked, the docker's tooltip, the *)
(* group's parent, the containers whose child list holds the group         *)
(* (`within`), tw, the windows that exist and those shown, the position of *)
(* tw, the stored "WindowX/WindowY" setting, the number of windows made so *)
(* far, whether a null tw was used, and the handler that ran last.         *)
(***************************************************************************)
Null == <<"null", 0>>
DockGroup == <<"dock", 0>>
PanelWindow(n) == <<"window", n>>
NoValue == <<>>
Positions == (0..MaxPos) \X (0..MaxPos)
\* Fl::event_x_root(), Fl::event_y_root()
EventPositions == {<<pos[1] + 10, pos[2] + 35>> : pos \in Positions}

\* Fl_Group::add: the widget leaves its parent and joins the container
add(g, container) ==
    [g EXCEPT !.within = (@ \ {g.parent}) \cup {container},
              !.parent = container]

\* Fl_Group::remove
remove(g, container) ==
    IF container \in g.within
    THEN [g EXCEPT !.within = @ \ {container}, !.parent = Null]
    ELSE g

\* PanelGroup::docked(bool)
docked(g, r) ==
    [g EXCEPT !._docked = r, !.tooltip = IF r THEN "Undock" ELSE "Dock"]

\* tw = new PanelWindow(X, Y, W, H)
newWindow(g, pos) ==
    [g EXCEPT !.tw = PanelWindow(g.made + 1),
              !.windows = @ \cup {PanelWindow(g.made + 1)},
              !.made = @ + 1,
              !.pos = pos]

\* PanelGroup::PanelGroup with a dock: create_floating or create_docked
PanelGroup(floater, pos) ==
    LET g == [group |-> TRUE, _docked |-> FALSE, tooltip |-> "none",
              parent |-> Null, within |-> {}, tw |-> Null, windows |-> {},
              shown |-> {}, pos |-> <<0, 0>>, settings |-> NoValue,
              made |-> 0, nullUsed |-> FALSE, last |-> "PanelGroup"]
    IN  IF floater
        THEN LET a == docked(newWindow(g, pos), FALSE)
                 b == add(a, a.tw)
             IN  [b EXCEPT !.shown = @ \cup {b.tw}]
        ELSE docked(add(g, DockGroup), TRUE)

\* PanelGroup::dock_grp that leaves tw as it is.
dockGrpKeepsWindow(g) ==
    IF ~g._docked
    THEN docked(add([g EXCEPT !.settings = g.pos], DockGroup), TRUE)
    ELSE g

\* PanelGroup::dock_grp
dock_grp(g) ==
    IF ~g._docked
    THEN IF g.tw = Null THEN [g EXCEPT !.nullUsed = TRUE]
         ELSE LET \* settings->setValue(key, tw->x_root()), ... tw->y_root()
                  a == [g EXCEPT !.settings = g.pos]
                  b == docked(add(a, DockGroup), TRUE)
                  \* tw->hide(); delete tw; tw = nullptr;
                  c == [b EXCEPT !.shown = @ \ {b.tw},
                                 !.windows = @ \ {b.tw},
                                 !.group = b.tw \notin b.within,
                                 !.within = @ \ {b.tw}]
              IN  [c EXCEPT !.tw = Null]
    ELSE g

\* PanelGroup::undock_grp, with the mouse at `event`
undock_grp(g, event) ==
    IF g._docked
    THEN LET a == docked(g, FALSE)
             b == newWindow(a, <<event[1] - 10, event[2] - 35>>)
             c == add(remove(b, DockGroup), b.tw)
             \* the stored window position, if there is one; tw->resize, show
             pos == IF c.settings = NoValue THEN c.pos ELSE c.settings
         IN  [c EXCEPT !.pos = pos, !.shown = @ \cup {c.tw}]
    ELSE g

\* cb_dock, the callback of the docker button
cb_dock(g, event) ==
    IF ~g._docked THEN dock_grp(g) ELSE undock_grp(g, event)

Handled(g, name) ==
    /\ panel' = [g EXCEPT !.last = name]
    /\ UNCHANGED <<viewport, timeline>>

Construct ==
    /\ panel = NoPanel
    /\ \E floater \in BOOLEAN, pos \in Positions :
          Handled(PanelGroup(floater, pos), "PanelGroup")

DockGrp ==
    /\ panel # NoPanel
    /\ panel.group
    /\ Handled(dock_grp(panel), "dock_grp")

UndockGrp ==
    /\ panel # NoPanel
    /\ panel.group
    /\ panel._docked => panel.made < MaxWindows
    /\ \E event \in EventPositions :
          Handled(undock_grp(panel, event), "undock_grp")

CbDock ==
    /\ panel # NoPanel
    /\ panel.group
    /\ panel._docked => panel.made < MaxWindows
    /\ \E event \in EventPositions :
          Handled(cb_dock(panel, event), "cb_dock")

\* The user moves the floating window.
MoveWindow ==
    /\ panel # NoPanel
    /\ panel.group
    /\ panel.tw # Null
    /\ \E pos \in Positions : Handled([panel EXCEPT !.pos = pos], "move")

PanelInit ==
    /\ Constructed
    /\ Idle
    /\ ann = NoAnnotations
    /\ USE_OPENGL2 = FALSE
    /\ NoWidgets

PanelNext ==
    \/ Construct
    \/ DockGrp
    \/ UndockGrp
    \/ CbDock
    \/ MoveWindow

SpecPanel == PanelInit /\ [][PanelNext]_vars

IsDocked(g) ==
    /\ g._docked
    /\ g.parent = DockGroup
    /\ g.within = {DockGroup}
    /\ g.tw = Null
    /\ g.windows = {}
IsFloating(g) ==
    /\ ~g._docked
    /\ g.tw # Null
    /\ g.windows = {g.tw}
    /\ g.parent = g.tw
    /\ g.within = {g.tw}
SameButLast(g, h) == [g EXCEPT !.last = "none"] = [h EXCEPT !.last = "none"]

\* C30: after its construction with a dock and any sequence of dock_grp,
\* undock_grp and cb_dock the panel group is either docked (a child of the
\* dock and of nothing else, tw null, no floating window left) or floating
\* (not docked, a child of exactly one existing floating window, tw); dock_grp
\* on a docked group and undock_grp on a floating one change nothing; and the
\* docker button's tooltip reads "Undock" exactly when the group is docked.
C30_DockedOrFloating ==
    [][/\ panel'.group
       /\ ~panel'.nullUsed
       /\ IsDocked(panel') \/ IsFloating(panel')
       /\ ~(IsDocked(panel') /\ IsFloating(panel'))
       /\ (panel'.tooltip = "Undock") <=> panel'._docked
       /\ panel'.tooltip \in {"Undock", "Dock"}
       /\ (panel # NoPanel /\ panel'.last = "dock_grp" /\ panel._docked) =>
             SameButLast(panel', panel)
       /\ (panel # NoPanel /\ panel'.last = "undock_grp" /\ ~panel._docked) =>
             SameButLast(panel', panel)
      ]_vars

\* A group that was docked, undocked, docked and undocked again: it floats
\* in the second window, the only one left, and the tooltip reads "Dock".
C30_Witness ==
    /\ panel # NoPanel
    /\ panel.last \in {"undock_grp", "cb_dock"}
    /\ panel.made = 2
    /\ panel.tw = PanelWindow(2)
    /\ panel.windows = {PanelWindow(2)}
    /\ panel.parent = PanelWindow(2)
    /\ panel.tooltip = "Dock"
    /\ panel.settings # NoValue

====
